---- MODULE Spec2Model ----
(***************************************************************************)
(* Breast Milk Tracker: the print dispatcher and the agent job queue of    *)
(* backend/server.js (the second, current copy of the file: lines 344 on), *)
(* over the file-backed store data.json.                                   *)
(*                                                                         *)
(* JavaScript values that reach the handlers from JSON request bodies are  *)
(* written as strings: the literals undefined, null, true, false and []    *)
(* by the names below, every other string is itself.                       *)
(***************************************************************************)
EXTENDS Integers, Sequences, FiniteSets, TLC

VARIABLES
    env,      \* process.env as read by the handlers
    disk,     \* the parsed content of data.json: sessions, printJobs, agents
    now,      \* the wall clock read by new Date()
    nextId,   \* the source of fresh uuidv4() values
    reqs,     \* requests in flight: handlers suspended at an await
    last,     \* the last handler run: its request, response and transport attempts
    agent     \* the print agent (agent.js): its loop iterations and pending timers

vars == <<env, disk, now, nextId, reqs, last, agent>>

----------------------------------------------------------------------------
(* Bounds *)

MaxJobs == 2            \* jobs in the store, job queue specifications
MaxClock == 2           \* the last clock reading
MaxDispatchJobs == 1    \* jobs in the store, dispatcher specification
MaxReqs == 2            \* overlapping requests
MaxTail == 2            \* characters of a notes text drawn from the alphabet

----------------------------------------------------------------------------
(* JavaScript values *)

Undefined == "undefined"
Null == "null"
EmptyStr == ""
EmptyArr == "[]"
JsTrue == "true"
JsFalse == "false"

\* ToBoolean: the falsy values among those the model draws
Truthy(v) == v \notin {Undefined, Null, EmptyStr, JsFalse}

\* a || b
Or(a, b) == IF Truthy(a) THEN a ELSE b

\* String(v): a string is itself, [] joins no elements into ""
String(v) == IF v = EmptyArr THEN EmptyStr ELSE v

\* v == null (loose): null and undefined
LooseNull(v) == v \in {Null, Undefined}

Has(r, f) == f \in DOMAIN r

\* obj.f = v on a JSON object: sets or adds the property
SetField(r, f, v) == [x \in {f} |-> v] @@ r

\* Array.prototype.findIndex over the set of indices (1-based) whose element
\* passes the test: the first of them; 0 stands for -1
FindIndex(matches) ==
    IF matches = {} THEN 0
    ELSE CHOOSE i \in matches : \A k \in matches : i <= k

----------------------------------------------------------------------------
(* The store *)

PrinterIds == {"pi-1", "pi-2"}

\* readData on a missing data.json
EmptyStore == [sessions |-> <<>>, printJobs |-> <<>>, agents |-> <<>>]

\* readData: the parsed document (the defaults are already in place in every
\* document writeData has written)
readData == disk

NoLast == [op |-> "none"]

\* days until a refrigerated session expires, months until a frozen one does
FridgeDays == 4
FrozenMonths == 6

\* the fields a stored session always has; notes is absent when the request
\* gave none (JSON.stringify drops an undefined property)
NewSession(id, amount, notes) ==
    LET base == [id |-> id, timestamp |-> now, amount_oz |-> amount,
                 use_by_fridge |-> <<now, FridgeDays, "d">>,
                 use_by_frozen |-> <<now, FrozenMonths, "mo">>]
    IN  IF notes = Undefined THEN base ELSE SetField(base, "notes", notes)

\* s.f for a property that may be absent
Get(r, f) == IF Has(r, f) THEN r[f] ELSE Undefined

----------------------------------------------------------------------------
(* Session CRUD *)

Amounts == {0, 1, 2}
NotesValues == {Undefined, EmptyStr, "a"}

\* POST /api/sessions
CreateSession(amount, notes) ==
    /\ IF amount <= 0
       THEN /\ last' = [op |-> "createSession", code |-> 400]
            /\ UNCHANGED <<disk, nextId>>
       ELSE /\ LET data == readData
                    newSession == NewSession(nextId, amount, notes)
               IN  /\ disk' = [data EXCEPT !.sessions = Append(@, newSession)]
                   /\ last' = [op |-> "createSession", code |-> 201, body |-> newSession]
            /\ nextId' = nextId + 1
    /\ UNCHANGED <<env, now, reqs>>

\* PATCH /api/sessions/:id; amount_oz and notes are <<>> when the body omits them
PatchSession(id, amount_oz, notes) ==
    /\ LET data == readData
           idx == FindIndex({i \in DOMAIN data.sessions : data.sessions[i].id = id})
       IN  IF idx = 0
           THEN /\ last' = [op |-> "patchSession", code |-> 404]
                /\ UNCHANGED disk
           ELSE IF amount_oz # <<>> /\ amount_oz[1] <= 0
           THEN /\ last' = [op |-> "patchSession", code |-> 400]
                /\ UNCHANGED disk
           ELSE LET s0 == data.sessions[idx]
                    s1 == IF amount_oz # <<>> THEN SetField(s0, "amount_oz", amount_oz[1]) ELSE s0
                    s2 == IF notes # <<>> THEN SetField(s1, "notes", notes[1]) ELSE s1
                IN  /\ disk' = [data EXCEPT !.sessions[idx] = s2]
                    /\ last' = [op |-> "patchSession", code |-> 200, body |-> s2]
    /\ UNCHANGED <<env, now, nextId, reqs>>

\* DELETE /api/sessions/:id
DeleteSession(id) ==
    /\ LET data == readData
           kept == SelectSeq(data.sessions, LAMBDA s : s.id # id)
       IN  IF Len(kept) = Len(data.sessions)
           THEN /\ last' = [op |-> "deleteSession", code |-> 404]
                /\ UNCHANGED disk
           ELSE /\ disk' = [data EXCEPT !.sessions = kept]
                /\ last' = [op |-> "deleteSession", code |-> 204]
    /\ UNCHANGED <<env, now, nextId, reqs>>

----------------------------------------------------------------------------
(* Agent endpoints *)

\* the indices findIndex tests true in next-job: queued jobs targeted at the
\* requester, and queued jobs with printerId == null
QueuedFor(printJobs, printerId) ==
    {i \in DOMAIN printJobs :
        printJobs[i].status = "queued" /\ printJobs[i].printerId = printerId}
QueuedUnassigned(printJobs) ==
    {i \in DOMAIN printJobs :
        printJobs[i].status = "queued" /\ LooseNull(printJobs[i].printerId)}

\* Array.prototype.findLastIndex, in the same form as FindIndex
FindLastIndex(matches) ==
    IF matches = {} THEN 0
    ELSE CHOOSE i \in matches : \A k \in matches : i >= k

\* a selection that forgets the status test on targeted jobs
SelectJobAnyStatus(printJobs, printerId) ==
    IF Truthy(printerId)
    THEN LET own == FindIndex({i \in DOMAIN printJobs : printJobs[i].printerId = printerId})
         IN  IF own = 0 THEN FindIndex(QueuedUnassigned(printJobs)) ELSE own
    ELSE FindIndex(QueuedUnassigned(printJobs))

\* a selection whose fallback takes any queued job, targeted or not
SelectJobStealing(printJobs, printerId) ==
    LET queued == {i \in DOMAIN printJobs : printJobs[i].status = "queued"}
    IN  IF Truthy(printerId)
        THEN LET own == FindIndex(QueuedFor(printJobs, printerId))
             IN  IF own = 0 THEN FindIndex(queued) ELSE own
        ELSE FindIndex(queued)

\* a selection that takes the last match in store order
SelectJobNewest(printJobs, printerId) ==
    IF Truthy(printerId)
    THEN LET own == FindLastIndex(QueuedFor(printJobs, printerId))
         IN  IF own = 0 THEN FindLastIndex(QueuedUnassigned(printJobs)) ELSE own
    ELSE FindLastIndex(QueuedUnassigned(printJobs))

\* a selection without the fallback to unassigned jobs for a named requester
SelectJobOwnOnly(printJobs, printerId) ==
    IF Truthy(printerId)
    THEN FindIndex(QueuedFor(printJobs, printerId))
    ELSE FindIndex(QueuedUnassigned(printJobs))

\* a selection that reassigns: with nothing else to hand out, a named
\* requester gets a queued job whose target printer has no fresh heartbeat
SelectJobReassigning(printJobs, printerId) ==
    LET unassigned == FindIndex(QueuedUnassigned(printJobs))
        orphaned == {i \in DOMAIN printJobs :
                        /\ printJobs[i].status = "queued"
                        /\ \/ printJobs[i].printerId \notin DOMAIN disk.agents
                           \/ disk.agents[printJobs[i].printerId].lastSeen < now}
    IN  IF Truthy(printerId)
        THEN LET own == FindIndex(QueuedFor(printJobs, printerId))
             IN  IF own # 0 THEN own
                 ELSE IF unassigned # 0 THEN unassigned
                 ELSE FindIndex(orphaned)
        ELSE unassigned

\* the job selection of POST /api/agents/next-job: the index of the job to
\* hand out, 0 for -1
SelectJob(printJobs, printerId) ==
    IF Truthy(printerId)
    THEN LET own == FindIndex(QueuedFor(printJobs, printerId))
         IN  IF own = 0 THEN FindIndex(QueuedUnassigned(printJobs)) ELSE own
    ELSE FindIndex(QueuedUnassigned(printJobs))

\* a claim that stamps claimedAt but leaves the status as it was
ClaimJobUnmarked(job, t) == SetField(job, "claimedAt", t)

\* a claim that also restamps createdAt
ClaimJobRestamped(job, t) ==
    SetField(SetField(SetField(job, "status", "claimed"), "claimedAt", t), "createdAt", t)

\* job.status = 'claimed'; job.claimedAt = new Date()
ClaimJob(job, t) == SetField(SetField(job, "status", "claimed"), "claimedAt", t)

\* a job update that keeps the first completion of a job
CompleteJobOnce(job, success, error, t) ==
    IF Has(job, "finishedAt") THEN job
    ELSE LET j1 == SetField(job, "status", IF Truthy(success) THEN "done" ELSE "failed")
             j2 == SetField(j1, "finishedAt", t)
         IN  IF ~Truthy(success)
             THEN SetField(j2, "error", String(Or(error, "unknown")))
             ELSE j2

\* a job update that puts a failed job back in the queue
CompleteJobRetrying(job, success, error, t) ==
    LET j1 == SetField(job, "status", IF Truthy(success) THEN "done" ELSE "queued")
        j2 == SetField(j1, "finishedAt", t)
    IN  IF ~Truthy(success)
        THEN SetField(j2, "error", String(Or(error, "unknown")))
        ELSE j2

\* a job update that records the outcome without finishedAt
CompleteJobUnstamped(job, success, error, t) ==
    LET j1 == SetField(job, "status", IF Truthy(success) THEN "done" ELSE "failed")
    IN  IF ~Truthy(success)
        THEN SetField(j1, "error", String(Or(error, "unknown")))
        ELSE j1

\* the job update of POST /api/print/:jobId/complete
CompleteJob(job, success, error, t) ==
    LET j1 == SetField(job, "status", IF Truthy(success) THEN "done" ELSE "failed")
        j2 == SetField(j1, "finishedAt", t)
    IN  IF ~Truthy(success)
        THEN SetField(j2, "error", String(Or(error, "unknown")))
        ELSE j2

\* POST /api/agents/next-job, run without interruption
NextJob(printerId) ==
    /\ LET store == readData
           idx == SelectJob(store.printJobs, printerId)
       IN  IF idx = 0
           THEN /\ last' = [op |-> "nextJob", printerId |-> printerId,
                            code |-> 200, job |-> <<>>, idx |-> 0]
                /\ UNCHANGED disk
           ELSE LET job == ClaimJob(store.printJobs[idx], now)
                IN  /\ disk' = [store EXCEPT !.printJobs[idx] = job]
                    /\ last' = [op |-> "nextJob", printerId |-> printerId,
                                code |-> 200, job |-> <<job>>, idx |-> idx]
    /\ UNCHANGED <<env, now, nextId, reqs>>

\* POST /api/print/:jobId/complete, run without interruption
Complete(jobId, success, error) ==
    /\ LET store == readData
           idx == FindIndex({i \in DOMAIN store.printJobs : store.printJobs[i].id = jobId})
       IN  IF idx = 0
           THEN /\ last' = [op |-> "complete", jobId |-> jobId, success |-> success,
                            error |-> error, code |-> 404, idx |-> 0]
                /\ UNCHANGED disk
           ELSE /\ disk' = [store EXCEPT !.printJobs[idx] =
                                CompleteJob(@, success, error, now)]
                /\ last' = [op |-> "complete", jobId |-> jobId, success |-> success,
                            error |-> error, code |-> 200, idx |-> idx]
    /\ UNCHANGED <<env, now, nextId, reqs>>

\* a heartbeat that keeps the record of the calling agent only
HeartbeatResetting(printerId, agentVersion, capabilities) ==
    /\ IF ~Truthy(printerId)
       THEN /\ last' = [op |-> "heartbeat", printerId |-> printerId, code |-> 400]
            /\ UNCHANGED disk
       ELSE LET store == readData
                rec == [printerId |-> printerId, lastSeen |-> now,
                        agentVersion |-> Or(agentVersion, Null),
                        capabilities |-> Or(capabilities, Null)]
            IN  /\ disk' = [store EXCEPT !.agents = [p \in {printerId} |-> rec]]
                /\ last' = [op |-> "heartbeat", printerId |-> printerId, code |-> 200]
    /\ UNCHANGED <<env, now, nextId, reqs>>

\* POST /api/agents/heartbeat
Heartbeat(printerId, agentVersion, capabilities) ==
    /\ IF ~Truthy(printerId)
       THEN /\ last' = [op |-> "heartbeat", printerId |-> printerId, code |-> 400]
            /\ UNCHANGED disk
       ELSE LET store == readData
                rec == [printerId |-> printerId, lastSeen |-> now,
                        agentVersion |-> Or(agentVersion, Null),
                        capabilities |-> Or(capabilities, Null)]
            IN  /\ disk' = [store EXCEPT !.agents = [p \in {printerId} |-> rec] @@ @]
                /\ last' = [op |-> "heartbeat", printerId |-> printerId, code |-> 200]
    /\ UNCHANGED <<env, now, nextId, reqs>>

----------------------------------------------------------------------------
(* The label formatter: the TSPL program and the PDF label.  amount_oz is a *)
(* number with two decimals, held as its count of hundredths of an ounce.   *)

\* Number(s.amount_oz || 0) for an amount that is a number or absent
oz(s) == IF Has(s, "amount_oz") THEN s.amount_oz ELSE 0

\* 29.5735, in ten-thousandths
MlPerOzE4 == 295735

\* a conversion that drops the fraction
toFixedTruncating(num, den) == num \div den

\* Number.prototype.toFixed(0) of num/den >= 0: the integer n for which
\* n - num/den is as close to zero as possible, the larger of two such n
toFixed0(num, den) == (2 * num + den) \div (2 * den)

\* (oz * 29.5735).toFixed(0)
ml(s) == ToString(toFixed0(oz(s) * MlPerOzE4, 100 * 10000))

\* oz.toFixed(2)
toFixed2(c) ==
    ToString(c \div 100) \o "." \o ToString((c % 100) \div 10) \o ToString(c % 10)

\* toLocaleDateString / toLocaleTimeString('en-US', {timeZone: 'America/New_York'})
\* and, for the PDF, in the server's locale
LocaleDate(iso) == "date " \o iso
LocaleTime(iso) == "time " \o iso
LocalDate(iso) == "local date " \o iso
LocalTime(iso) == "local time " \o iso

\* the ISO strings of a session's instants: the timestamp, and a use-by
\* instant as the timestamp plus its shelf life
Iso(t) == ToString(t)
IsoUseBy(u) == ToString(u[1]) \o "+" \o ToString(u[2]) \o u[3]

\* str.replace(/"/g, '\\"')
RECURSIVE replaceQuotes(_)
replaceQuotes(str) ==
    IF Len(str) = 0 THEN ""
    ELSE (IF SubSeq(str, 1, 1) = "\"" THEN "\\\"" ELSE SubSeq(str, 1, 1))
         \o replaceQuotes(SubSeq(str, 2, Len(str)))

\* str.slice(0, n)
slice(str, n) == SubSeq(str, 1, IF Len(str) < n THEN Len(str) ELSE n)

\* the character budgets of the notes line
TsplNotesWidth == 28
PdfNotesWidth == 60

pad == 30
y1 == 20
y2 == 50
y3 == 95
y4 == 125

\* `TEXT ${pad},${y},"0",0,${xmul},${ymul},"${text}"`
Text(y, xmul, ymul, text) ==
    "TEXT " \o ToString(pad) \o "," \o ToString(y) \o ",\"0\",0," \o ToString(xmul)
        \o "," \o ToString(ymul) \o ",\"" \o text \o "\""

\* the thirteen entries of the lines array, '' as the notes entry of a
\* session with falsy notes
labelEntries(s) ==
    <<"SIZE 2.625,1.000",
      "GAP 0.12,0",
      "DIRECTION 1",
      "REFERENCE 0,0",
      "OFFSET 0.0",
      "SET TEAR ON",
      "CLS",
      Text(y1, 1, 1, LocaleDate(Iso(s.timestamp)) \o " " \o LocaleTime(Iso(s.timestamp))),
      Text(y2, 1, 2, toFixed2(oz(s)) \o " oz (" \o ml(s) \o " ml)"),
      IF Truthy(Get(s, "notes"))
      THEN Text(y3, 1, 1, slice(replaceQuotes(String(s.notes)), TsplNotesWidth))
      ELSE "",
      Text(y4, 1, 1, "Fridge: " \o LocaleDate(IsoUseBy(s.use_by_fridge))
                        \o "  Freezer: " \o LocaleDate(IsoUseBy(s.use_by_frozen))),
      "PRINT 1,1",
      "FORMFEED">>

\* .filter(Boolean) on an array of strings
filterBoolean(entries) == SelectSeq(entries, LAMBDA e : Len(e) > 0)

\* lines.join('\n') + '\n'
RECURSIVE join(_)
join(lines) ==
    IF lines = <<>> THEN ""
    ELSE lines[1] \o (IF Len(lines) > 1 THEN "\n" \o join(Tail(lines)) ELSE "")
program(lines) == join(lines) \o "\n"

\* the lines of a program text: every line ends in a newline
LineCount(text) == Cardinality({i \in 1..Len(text) : SubSeq(text, i, i) = "\n"})

\* tsplLines of the TCP branch, tsplLines of the tspl branch, and lines of
\* the agent's tsplForSession
tcpTsplLines(s) == filterBoolean(labelEntries(s))
tsplLines(s) == filterBoolean(labelEntries(s))
agentLines(s) == filterBoolean(labelEntries(s))
tsplForSession(s) == program(agentLines(s))

\* the texts drawn on the PDF label
pdfLabel(s) ==
    [date |-> LocalDate(Iso(s.timestamp)) \o " " \o LocalTime(Iso(s.timestamp)),
     amount |-> toFixed2(oz(s)) \o " oz",
     ml |-> "  (" \o ml(s) \o " ml)",
     notes |-> IF Truthy(Get(s, "notes"))
               THEN <<slice(String(s.notes), PdfNotesWidth)>> ELSE <<>>,
     useBy |-> "Fridge: " \o LocalDate(IsoUseBy(s.use_by_fridge))
                  \o "   Freeze: " \o LocalDate(IsoUseBy(s.use_by_frozen))]

----------------------------------------------------------------------------
(* The print dispatcher: POST /api/print *)

\* a comparison of PRINT_MODE that forgets toLowerCase
ToLowerCaseOmitted(str) == str

\* String.prototype.toLowerCase on the values PRINT_MODE is drawn from
ToLowerCase(str) == IF str \in {"TSPL", "Tspl"} THEN "tspl" ELSE str

\* (process.env.CENTRAL_MODE || '0') === '1'
centralMode == Or(env.CENTRAL_MODE, "0") = "1"

\* (process.env.PRINT_MODE || '').toLowerCase()
printMode == ToLowerCase(Or(env.PRINT_MODE, EmptyStr))

\* process.env.DIRECT_PRINT === 'true' || process.env.DIRECT_PRINT === '1'
directPrint == env.DIRECT_PRINT = "true" \/ env.DIRECT_PRINT = "1"

DefaultTcpPort == 9100
MaxPort == 65535

\* a resolution that falls back to an empty session object instead of
\* leaving s undefined
ResolveSessionOrEmpty(req, data) ==
    IF req.session # <<>> THEN req.session
    ELSE IF req.sessionId # <<>>
            /\ \E k \in DOMAIN data.sessions : data.sessions[k].id = req.sessionId[1]
    THEN <<data.sessions[CHOOSE k \in DOMAIN data.sessions :
                            data.sessions[k].id = req.sessionId[1]]>>
    ELSE <<[id |-> 0, timestamp |-> 0, amount_oz |-> 0,
            use_by_fridge |-> <<0, 0, "d">>, use_by_frozen |-> <<0, 0, "mo">>]>>

\* let s = session; if (!s && sessionId) s = data.sessions.find(...)
\* <<>> when s stays undefined
ResolveSession(req, data) ==
    IF req.session # <<>> THEN req.session
    ELSE IF req.sessionId # <<>>
    THEN LET i == FindIndex({k \in DOMAIN data.sessions :
                                data.sessions[k].id = req.sessionId[1]})
         IN  IF i = 0 THEN <<>> ELSE <<data.sessions[i]>>
    ELSE <<>>

\* directTcpPrinter && directTcpPrinter.host
TcpRequested(req) ==
    req.directTcpPrinter # <<>> /\ Truthy(Get(req.directTcpPrinter[1], "host"))

\* Number(directTcpPrinter.port || 9100); a port given is a non-zero number
TcpPort(req) ==
    IF Has(req.directTcpPrinter[1], "port")
    THEN req.directTcpPrinter[1].port
    ELSE DefaultTcpPort

\* the job object the queue branch builds
NewJob(id, printerId, s, t) ==
    [id |-> id,
     printerId |-> Or(printerId, Null),
     status |-> "queued",
     createdAt |-> t,
     session |-> [id |-> s.id,
                  timestamp |-> s.timestamp,
                  amount_oz |-> oz(s),
                  notes |-> Or(Get(s, "notes"), EmptyStr),
                  use_by_fridge |-> s.use_by_fridge,
                  use_by_frozen |-> s.use_by_frozen]]

\* an if-chain that tests the queue condition before directTcpPrinter
BranchQueueFirst(req) ==
    IF centralMode \/ Truthy(req.printerId) THEN "queue"
    ELSE IF TcpRequested(req) THEN "tcp"
    ELSE IF printMode = "tspl" THEN "tspl"
    ELSE "pdf"

\* an if-chain that enqueues in central mode only
BranchCentralOnly(req) ==
    IF TcpRequested(req) THEN "tcp"
    ELSE IF centralMode THEN "queue"
    ELSE IF printMode = "tspl" THEN "tspl"
    ELSE "pdf"

\* an if-chain that enqueues a targeted job only for a printer whose agent
\* has registered with a heartbeat
BranchKnownAgent(req) ==
    IF TcpRequested(req) THEN "tcp"
    ELSE IF centralMode \/ (Truthy(req.printerId) /\ req.printerId \in DOMAIN disk.agents)
    THEN "queue"
    ELSE IF printMode = "tspl" THEN "tspl"
    ELSE "pdf"

\* the branch the if-chain of the handler takes for a resolved session
Branch(req) ==
    IF TcpRequested(req) THEN "tcp"
    ELSE IF centralMode \/ Truthy(req.printerId) THEN "queue"
    ELSE IF printMode = "tspl" THEN "tspl"
    ELSE "pdf"

\* the lp arguments of the tspl branch
LpRawArgs == <<"-o", "raw">>

\* the lp arguments of the pdf branch (LABEL_MEDIA, PRINT_FIT, ORIENTATION unset)
LpPdfArgs == <<"-o", "media=Custom.189x72", "-o", "fit-to-page">>

\* lp.on('close'): the response of a spawned lp; no response at all when the
\* spawn fails, for its 'error' event has no listener
LpResponse(lpOutcome, mode) ==
    IF lpOutcome = "exit0" THEN [code |-> 200, body |-> [status |-> "queued", mode |-> mode]]
    ELSE IF lpOutcome = "exit1" THEN [code |-> 500, body |-> [message |-> "Print failed"]]
    ELSE [code |-> 0, body |-> [message |-> "uncaught"]]

\* a direct write without the return that follows it
RawNeverReturns(rawOutcome) == FALSE

\* the direct write succeeded and the handler returned: lp is not started
RawHandled(rawOutcome) == directPrint /\ rawOutcome = "ok"

\* a tspl branch that spawns lp before it tries the device
TsplAttemptsLpFirst(rawOutcome, lpOutcome) ==
    LET raw == <<[kind |-> "raw", device |-> "/dev/usb/lp0", outcome |-> rawOutcome]>>
        lp == <<[kind |-> "lp", args |-> LpRawArgs, outcome |-> lpOutcome]>>
    IN  (IF RawHandled(rawOutcome) THEN <<>> ELSE lp) \o
        (IF directPrint THEN raw ELSE <<>>)

\* the tspl branch: fs.writeFileSync to the device when DIRECT_PRINT is on,
\* then, unless that returned, lp -o raw
TsplAttempts(rawOutcome, lpOutcome) ==
    LET raw == <<[kind |-> "raw", device |-> "/dev/usb/lp0", outcome |-> rawOutcome]>>
        lp == <<[kind |-> "lp", args |-> LpRawArgs, outcome |-> lpOutcome]>>
    IN  (IF directPrint THEN raw ELSE <<>>) \o
        (IF RawHandled(rawOutcome) THEN <<>> ELSE lp)

\* what a branch renders, held as the builder that ran and the session it
\* ran on; Rendering gives the program text or the PDF label it built
Output(builder, s) == [builder |-> builder, s |-> s]
Rendering(out) ==
    IF out.builder = "tcp" THEN program(tcpTsplLines(out.s))
    ELSE IF out.builder = "tspl" THEN program(tsplLines(out.s))
    ELSE pdfLabel(out.s)

\* what the handler does after session resolution: the response, the
\* transport attempts in order, the program rendered and the store written
Dispatch(req, s, store, id, t, tcpOutcome, rawOutcome, lpOutcome) ==
    LET branch == Branch(req) IN
    IF branch = "tcp"
    THEN LET port == TcpPort(req)
             host == String(req.directTcpPrinter[1].host)
         IN  IF port > MaxPort
             THEN [branch |-> branch, code |-> 500, body |-> [message |-> "Server error"],
                   attempts |-> <<>>, rendered |-> <<"tspl">>,
                   output |-> <<Output("tcp", s)>>, store |-> store]
             ELSE [branch |-> branch,
                   code |-> IF tcpOutcome = "ok" THEN 200 ELSE 502,
                   body |-> IF tcpOutcome = "ok"
                            THEN [status |-> "printed", mode |-> "tspl-tcp",
                                  host |-> host, port |-> port]
                            ELSE [message |-> "TCP print failed", error |-> tcpOutcome],
                   attempts |-> <<[kind |-> "tcp", host |-> host, port |-> port,
                                   outcome |-> tcpOutcome]>>,
                   rendered |-> <<"tspl">>,
                   output |-> <<Output("tcp", s)>>, store |-> store]
    ELSE IF branch = "queue"
    THEN LET job == NewJob(id, req.printerId, s, t)
         IN  [branch |-> branch, code |-> 200,
              body |-> [status |-> "queued", jobId |-> job.id, printerId |-> job.printerId],
              attempts |-> <<[kind |-> "enqueue", jobId |-> job.id, outcome |-> "ok"]>>,
              rendered |-> <<>>, output |-> <<>>,
              store |-> [store EXCEPT !.printJobs = Append(@, job)]]
    ELSE IF branch = "tspl"
    THEN IF RawHandled(rawOutcome)
         THEN [branch |-> branch, code |-> 200,
               body |-> [status |-> "printed", mode |-> "tspl-direct"],
               attempts |-> TsplAttempts(rawOutcome, lpOutcome),
               rendered |-> <<"tspl">>,
               output |-> <<Output("tspl", s)>>, store |-> store]
         ELSE [branch |-> branch] @@ LpResponse(lpOutcome, "tspl") @@
              [attempts |-> TsplAttempts(rawOutcome, lpOutcome),
               rendered |-> <<"tspl">>,
               output |-> <<Output("tspl", s)>>, store |-> store]
    ELSE [branch |-> branch] @@ LpResponse(lpOutcome, "pdf") @@
         [attempts |-> <<[kind |-> "lp", args |-> LpPdfArgs, outcome |-> lpOutcome]>>,
          rendered |-> <<"pdf">>, output |-> <<Output("pdf", s)>>, store |-> store]

\* POST /api/print, run without interruption
PostPrint(req, tcpOutcome, rawOutcome, lpOutcome) ==
    /\ LET data == readData
           s == ResolveSession(req, data)
       IN  IF s = <<>>
           THEN /\ last' = [op |-> "print", req |-> req, code |-> 400,
                            body |-> [message |-> "No session provided"],
                            branch |-> "none", attempts |-> <<>>, rendered |-> <<>>,
                            output |-> <<>>]
                /\ UNCHANGED <<disk, nextId>>
           ELSE LET d == Dispatch(req, s[1], data, nextId, now,
                                  tcpOutcome, rawOutcome, lpOutcome)
                IN  /\ disk' = d.store
                    /\ nextId' = IF d.branch = "queue" THEN nextId + 1 ELSE nextId
                    /\ last' = [op |-> "print", req |-> req, code |-> d.code,
                                body |-> d.body, branch |-> d.branch,
                                attempts |-> d.attempts, rendered |-> d.rendered,
                                output |-> d.output]
    /\ UNCHANGED <<env, now, reqs>>

\* time passes between handler runs
Tick ==
    /\ now < MaxClock
    /\ now' = now + 1
    /\ UNCHANGED <<env, disk, nextId, reqs, last>>

----------------------------------------------------------------------------
(* Specifications *)

InlineSession ==
    [id |-> 0, timestamp |-> 0, amount_oz |-> 1,
     use_by_fridge |-> <<0, FridgeDays, "d">>, use_by_frozen |-> <<0, FrozenMonths, "mo">>]

\* a request body of POST /api/print
PrintRequest(sessionId, session, printerId, directTcpPrinter) ==
    [sessionId |-> sessionId, session |-> session, printerId |-> printerId,
     directTcpPrinter |-> directTcpPrinter]

\* the adapter outcomes that can follow a request: an adapter that is not
\* invoked has the outcome "-"
TcpOutcomes(req) == IF Branch(req) = "tcp" THEN {"ok", "error", "timeout"} ELSE {"-"}
RawOutcomes(req) == IF Branch(req) = "tspl" /\ directPrint THEN {"ok", "throws"} ELSE {"-"}
LpOutcomes(req, rawOutcome) ==
    IF Branch(req) \in {"tspl", "pdf"} /\ rawOutcome # "ok"
    THEN {"exit0", "exit1", "enoent"}
    ELSE {"-"}

\* the central-server deployment of the README: CENTRAL_MODE=1
CentralEnv == [CENTRAL_MODE |-> "1", PRINT_MODE |-> Undefined, DIRECT_PRINT |-> Undefined]

\* no agent process
NoAgent == [iters |-> <<>>, timers |-> 0, reports |-> <<>>, device |-> <<>>]

InitStore ==
    /\ disk = EmptyStore
    /\ now = 1
    /\ nextId = 1
    /\ reqs = <<>>
    /\ last = NoLast

\* the server alone: no agent runs and none is started
Idle == UNCHANGED agent

\* The job queue, handlers run one at a time: enqueue, next-job, complete
Init == env = CentralEnv /\ InitStore /\ agent = NoAgent

Next ==
    \/ \E p \in PrinterIds \cup {Undefined} :
          /\ Len(disk.printJobs) < MaxJobs
          /\ PostPrint(PrintRequest(<<>>, <<InlineSession>>, p, <<>>), "-", "-", "-")
          /\ Idle
    \/ \E p \in PrinterIds \cup {Undefined} : NextJob(p) /\ Idle
    \/ \E j \in 1..(MaxJobs + 1), s \in {JsTrue, JsFalse} :
          Complete(j, s, Undefined) /\ Idle

Spec == Init /\ [][Next]_vars

\* The job queue with the clock running: enqueue and next-job
NextFifo ==
    \/ \E p \in PrinterIds \cup {Undefined} :
          /\ Len(disk.printJobs) < MaxJobs
          /\ PostPrint(PrintRequest(<<>>, <<InlineSession>>, p, <<>>), "-", "-", "-")
          /\ Idle
    \/ \E p \in PrinterIds \cup {Undefined} : NextJob(p) /\ Idle
    \/ Tick /\ Idle

SpecFifo == Init /\ [][NextFifo]_vars

\* The dispatcher under every configuration
EnvValues ==
    [CENTRAL_MODE : {Undefined, "1", "true"},
     PRINT_MODE : {Undefined, "tspl", "TSPL", "pdf"},
     DIRECT_PRINT : {Undefined, "1", "true"}]

StoredSession ==
    [id |-> 1, timestamp |-> 1, amount_oz |-> 2, notes |-> "a",
     use_by_fridge |-> <<1, FridgeDays, "d">>, use_by_frozen |-> <<1, FrozenMonths, "mo">>]

TcpPrinters ==
    {[port |-> 9101], [host |-> EmptyStr], [host |-> "10.0.0.9"],
     [host |-> "10.0.0.9", port |-> 70000]}

PrintRequests ==
    {PrintRequest(i, s, p, d) :
        i \in {<<>>, <<1>>}, s \in {<<>>, <<InlineSession>>},
        p \in {Undefined, EmptyStr, "pi-1"},
        d \in {<<>>} \cup {<<x>> : x \in TcpPrinters}}

InitPrint ==
    /\ env \in EnvValues
    /\ disk \in {EmptyStore, [EmptyStore EXCEPT !.sessions = <<StoredSession>>]}
    /\ now = 1
    /\ nextId = 2
    /\ reqs = <<>>
    /\ last = NoLast
    /\ agent = NoAgent

NextPrint ==
    \E r \in PrintRequests :
        \E tc \in TcpOutcomes(r), rw \in RawOutcomes(r) :
            \E lp \in LpOutcomes(r, rw) :
                /\ PostPrint(r, tc, rw, lp)
                /\ Len(disk'.printJobs) <= MaxDispatchJobs
                /\ Idle

SpecPrint == InitPrint /\ [][NextPrint]_vars

\* Completion reports of every shape, on a store of few jobs
NextComplete ==
    \/ /\ Len(disk.printJobs) < MaxDispatchJobs
       /\ PostPrint(PrintRequest(<<>>, <<InlineSession>>, Undefined, <<>>), "-", "-", "-")
       /\ Idle
    \/ NextJob("pi-1") /\ Idle
    \/ \E j \in 1..(MaxDispatchJobs + 1), s \in {JsTrue, JsFalse, Undefined},
          e \in {Undefined, EmptyStr, EmptyArr, "jam"} : Complete(j, s, e) /\ Idle
    \/ Tick /\ Idle

SpecComplete == Init /\ [][NextComplete]_vars

----------------------------------------------------------------------------
(* Handlers suspended at their awaits: a handler reads data.json, changes   *)
(* its own copy, and writes the copy back later; other handlers run in      *)
(* between.                                                                 *)

\* next-job up to its await writeData(store): the store is read, the job
\* chosen and claimed in the handler's copy; or, with no job, answered at once
BeginNextJob(printerId) ==
    /\ LET store == readData
           idx == SelectJob(store.printJobs, printerId)
       IN  IF idx = 0
           THEN reqs' = Append(reqs, [op |-> "nextJob", printerId |-> printerId,
                                      pc |-> "done", code |-> 200, job |-> <<>>])
           ELSE LET job == ClaimJob(store.printJobs[idx], now)
                IN  reqs' = Append(reqs, [op |-> "nextJob", printerId |-> printerId,
                                          pc |-> "writing",
                                          store |-> [store EXCEPT !.printJobs[idx] = job],
                                          code |-> 200, job |-> <<job>>])
    /\ UNCHANGED <<env, disk, now, nextId, last>>

\* the record of a handler that has sent its response: its copy of the store
\* is dropped
Responded(r) ==
    [f \in DOMAIN r \ {"store"} |-> IF f = "pc" THEN "done" ELSE r[f]]

\* a handler that answers without awaiting writeData
FinishWriteUnwritten(i) ==
    /\ reqs[i].pc = "writing"
    /\ reqs' = [reqs EXCEPT ![i] = Responded(@)]
    /\ UNCHANGED <<env, disk, now, nextId, last>>

\* writeData resolves: the handler's copy replaces data.json, and the
\* response is sent
FinishWrite(i) ==
    /\ reqs[i].pc = "writing"
    /\ disk' = reqs[i].store
    /\ reqs' = [reqs EXCEPT ![i] = Responded(@)]
    /\ UNCHANGED <<env, now, nextId, last>>

\* POST /api/print arrives: the session is resolved (with a read of data.json
\* when only a sessionId is given), or the request is answered 400
BeginPrint(req) ==
    /\ LET data == readData
           s == ResolveSession(req, data)
       IN  IF s = <<>>
           THEN reqs' = Append(reqs, [op |-> "print", req |-> req, pc |-> "done",
                                      code |-> 400])
           ELSE reqs' = Append(reqs, [op |-> "print", req |-> req, pc |-> "resolved",
                                      s |-> s[1]])
    /\ UNCHANGED <<env, disk, now, nextId, last>>

\* the queue branch up to its await writeData(store): the store is read and
\* the new job pushed on the handler's copy
EnqueueRead(i) ==
    /\ reqs[i].op = "print" /\ reqs[i].pc = "resolved"
    /\ LET store == readData
           job == NewJob(nextId, reqs[i].req.printerId, reqs[i].s, now)
       IN  reqs' = [reqs EXCEPT ![i] =
                      [op |-> "print", req |-> @.req, pc |-> "writing",
                       store |-> [store EXCEPT !.printJobs = Append(@, job)],
                       code |-> 200, jobId |-> job.id]]
    /\ nextId' = nextId + 1
    /\ UNCHANGED <<env, disk, now, last>>

\* a complete handler that acknowledges an unknown job id instead of
\* rejecting it
BeginCompleteLenient(jobId, success, error) ==
    /\ LET store == readData
           idx == FindIndex({i \in DOMAIN store.printJobs : store.printJobs[i].id = jobId})
       IN  IF idx = 0
           THEN reqs' = Append(reqs, [op |-> "complete", jobId |-> jobId,
                                      success |-> success, pc |-> "done", code |-> 200])
           ELSE reqs' = Append(reqs, [op |-> "complete", jobId |-> jobId,
                                      success |-> success, pc |-> "writing",
                                      store |-> [store EXCEPT !.printJobs[idx] =
                                                   CompleteJob(@, success, error, now)],
                                      code |-> 200])
    /\ UNCHANGED <<env, disk, now, nextId, last>>

\* complete up to its await writeData(store)
BeginComplete(jobId, success, error) ==
    /\ LET store == readData
           idx == FindIndex({i \in DOMAIN store.printJobs : store.printJobs[i].id = jobId})
       IN  IF idx = 0
           THEN reqs' = Append(reqs, [op |-> "complete", jobId |-> jobId,
                                      success |-> success, pc |-> "done", code |-> 404])
           ELSE reqs' = Append(reqs, [op |-> "complete", jobId |-> jobId,
                                      success |-> success, pc |-> "writing",
                                      store |-> [store EXCEPT !.printJobs[idx] =
                                                   CompleteJob(@, success, error, now)],
                                      code |-> 200])
    /\ UNCHANGED <<env, disk, now, nextId, last>>

\* heartbeat up to its await writeData(store)
BeginHeartbeat(printerId, agentVersion, capabilities) ==
    /\ IF ~Truthy(printerId)
       THEN reqs' = Append(reqs, [op |-> "heartbeat", printerId |-> printerId,
                                  pc |-> "done", code |-> 400])
       ELSE LET store == readData
                rec == [printerId |-> printerId, lastSeen |-> now,
                        agentVersion |-> Or(agentVersion, Null),
                        capabilities |-> Or(capabilities, Null)]
            IN  reqs' = Append(reqs, [op |-> "heartbeat", printerId |-> printerId,
                                      pc |-> "writing",
                                      store |-> [store EXCEPT !.agents =
                                                   [p \in {printerId} |-> rec] @@ @],
                                      code |-> 200])
    /\ UNCHANGED <<env, disk, now, nextId, last>>

\* POST /api/sessions up to its await writeData(data)
BeginCreateSession(amount, notes) ==
    /\ IF amount <= 0
       THEN /\ reqs' = Append(reqs, [op |-> "createSession", pc |-> "done", code |-> 400])
            /\ UNCHANGED nextId
       ELSE /\ LET data == readData
                    newSession == NewSession(nextId, amount, notes)
               IN  reqs' = Append(reqs, [op |-> "createSession", id |-> nextId,
                                         pc |-> "writing",
                                         store |-> [data EXCEPT !.sessions =
                                                      Append(@, newSession)],
                                         code |-> 201])
            /\ nextId' = nextId + 1
    /\ UNCHANGED <<env, disk, now, last>>

\* a PATCH that also rewrites the snapshots of the jobs printed from the session
BeginPatchSessionAndJobs(id, amount_oz, notes) ==
    /\ LET data == readData
           idx == FindIndex({i \in DOMAIN data.sessions : data.sessions[i].id = id})
           Patched(s0) ==
               LET s1 == IF amount_oz # <<>> THEN SetField(s0, "amount_oz", amount_oz[1]) ELSE s0
               IN  IF notes # <<>> THEN SetField(s1, "notes", notes[1]) ELSE s1
       IN  IF idx = 0 \/ (amount_oz # <<>> /\ amount_oz[1] <= 0)
           THEN reqs' = Append(reqs, [op |-> "patchSession", id |-> id, pc |-> "done",
                                      code |-> IF idx = 0 THEN 404 ELSE 400])
           ELSE reqs' = Append(reqs,
                   [op |-> "patchSession", id |-> id, pc |-> "writing",
                    store |-> [data EXCEPT
                                 !.sessions[idx] = Patched(@),
                                 !.printJobs = [k \in DOMAIN @ |->
                                     IF @[k].session.id = id
                                     THEN [@[k] EXCEPT !.session = Patched(@)]
                                     ELSE @[k]]],
                    code |-> 200])
    /\ UNCHANGED <<env, disk, now, nextId, last>>

\* PATCH /api/sessions/:id up to its await writeData(data)
BeginPatchSession(id, amount_oz, notes) ==
    /\ LET data == readData
           idx == FindIndex({i \in DOMAIN data.sessions : data.sessions[i].id = id})
       IN  IF idx = 0
           THEN reqs' = Append(reqs, [op |-> "patchSession", id |-> id, pc |-> "done",
                                      code |-> 404])
           ELSE IF amount_oz # <<>> /\ amount_oz[1] <= 0
           THEN reqs' = Append(reqs, [op |-> "patchSession", id |-> id, pc |-> "done",
                                      code |-> 400])
           ELSE LET s0 == data.sessions[idx]
                    s1 == IF amount_oz # <<>> THEN SetField(s0, "amount_oz", amount_oz[1]) ELSE s0
                    s2 == IF notes # <<>> THEN SetField(s1, "notes", notes[1]) ELSE s1
                IN  reqs' = Append(reqs, [op |-> "patchSession", id |-> id,
                                          pc |-> "writing",
                                          store |-> [data EXCEPT !.sessions[idx] = s2],
                                          code |-> 200])
    /\ UNCHANGED <<env, disk, now, nextId, last>>

\* DELETE /api/sessions/:id up to its await writeData(data)
BeginDeleteSession(id) ==
    /\ LET data == readData
           kept == SelectSeq(data.sessions, LAMBDA s : s.id # id)
       IN  IF Len(kept) = Len(data.sessions)
           THEN reqs' = Append(reqs, [op |-> "deleteSession", id |-> id, pc |-> "done",
                                      code |-> 404])
           ELSE reqs' = Append(reqs, [op |-> "deleteSession", id |-> id, pc |-> "writing",
                                      store |-> [data EXCEPT !.sessions = kept],
                                      code |-> 204])
    /\ UNCHANGED <<env, disk, now, nextId, last>>

\* a store holding exactly one queued unassigned job
InitConc ==
    /\ env = CentralEnv
    /\ disk = [EmptyStore EXCEPT !.printJobs = <<NewJob(1, Undefined, InlineSession, 1)>>]
    /\ now = 1
    /\ nextId = 2
    /\ reqs = <<>>
    /\ last = NoLast
    /\ agent = NoAgent

NextConc ==
    \/ \E p \in PrinterIds \cup {Undefined} :
          Len(reqs) < MaxReqs /\ BeginNextJob(p) /\ Idle
    \/ \E i \in 1..Len(reqs) : FinishWrite(i) /\ Idle
    \/ Tick /\ Idle

SpecConc == InitConc /\ [][NextConc]_vars

\* Every mutating handler, suspended at its awaits, on a store that holds one
\* session and one queued unassigned job
InitAsync ==
    /\ env = CentralEnv
    /\ disk = [EmptyStore EXCEPT !.sessions = <<StoredSession>>,
                                 !.printJobs = <<NewJob(2, Undefined, InlineSession, 1)>>]
    /\ now = 1
    /\ nextId = 3
    /\ reqs = <<>>
    /\ last = NoLast
    /\ agent = NoAgent

NextAsync ==
    \/ \E r \in {PrintRequest(<<1>>, <<>>, Undefined, <<>>),
                  PrintRequest(<<>>, <<InlineSession>>, "pi-1", <<>>),
                  PrintRequest(<<9>>, <<>>, "pi-1", <<>>)} :
          Len(reqs) < MaxReqs /\ BeginPrint(r) /\ Idle
    \/ \E i \in 1..Len(reqs) : EnqueueRead(i) /\ Idle
    \/ \E p \in {"pi-1", Undefined} : Len(reqs) < MaxReqs /\ BeginNextJob(p) /\ Idle
    \/ \E j \in {2, 9}, s \in {JsTrue, JsFalse} :
          Len(reqs) < MaxReqs /\ BeginComplete(j, s, Undefined) /\ Idle
    \/ \E p \in {"pi-1", Undefined} :
          Len(reqs) < MaxReqs /\ BeginHeartbeat(p, "1.0.0", Undefined) /\ Idle
    \/ \E a \in {0, 2} : Len(reqs) < MaxReqs /\ BeginCreateSession(a, Undefined) /\ Idle
    \/ \E a \in {<<>>, <<0>>, <<3>>}, n \in {<<>>, <<"b">>} :
          Len(reqs) < MaxReqs /\ BeginPatchSession(1, a, n) /\ Idle
    \/ \E k \in {1, 9} : Len(reqs) < MaxReqs /\ BeginDeleteSession(k) /\ Idle
    \/ \E i \in 1..Len(reqs) : FinishWrite(i) /\ Idle

SpecAsync == InitAsync /\ [][NextAsync]_vars

\* next-job handlers that run without interruption, one after the other,
\* while heartbeat, enqueue, complete and session-patch handlers are
\* suspended at their awaits around them
NextStale ==
    \/ NextJob("pi-1") /\ Idle
    \/ Len(reqs) < MaxReqs /\ BeginHeartbeat("pi-1", "1.0.0", Undefined) /\ Idle
    \/ /\ Len(reqs) < MaxReqs
       /\ BeginPrint(PrintRequest(<<1>>, <<>>, Undefined, <<>>))
       /\ Idle
    \/ \E i \in 1..Len(reqs) : EnqueueRead(i) /\ Idle
    \/ Len(reqs) < MaxReqs /\ BeginComplete(2, JsTrue, Undefined) /\ Idle
    \/ Len(reqs) < MaxReqs /\ BeginPatchSession(1, <<3>>, <<>>) /\ Idle
    \/ \E i \in 1..Len(reqs) : FinishWrite(i) /\ Idle

SpecStale == InitAsync /\ [][NextStale]_vars

\* Enqueue, next-job, complete, heartbeat and session patch and delete, run
\* one at a time with the clock running, on a store that holds one session
\* and one queued job targeted at pi-2
InitFrame ==
    /\ env = CentralEnv
    /\ disk = [EmptyStore EXCEPT !.sessions = <<StoredSession>>,
                                 !.printJobs = <<NewJob(2, "pi-2", StoredSession, 1)>>]
    /\ now = 1
    /\ nextId = 3
    /\ reqs = <<>>
    /\ last = NoLast
    /\ agent = NoAgent

NextFrame ==
    \/ /\ Len(disk.printJobs) < MaxDispatchJobs + 1
       /\ PostPrint(PrintRequest(<<>>, <<InlineSession>>, Undefined, <<>>), "-", "-", "-")
       /\ Idle
    \/ \E p \in PrinterIds : NextJob(p) /\ Idle
    \/ \E j \in DOMAIN disk.printJobs :
          Complete(disk.printJobs[j].id, JsTrue, Undefined) /\ Idle
    \/ \E p \in PrinterIds : Heartbeat(p, "1.0.0", Undefined) /\ Idle
    \/ PatchSession(1, <<3>>, <<>>) /\ Idle
    \/ DeleteSession(1) /\ Idle
    \/ Tick /\ Idle

SpecFrame == InitFrame /\ [][NextFrame]_vars

----------------------------------------------------------------------------
(* Properties of the job queue *)

Jobs == disk.printJobs
JobIdx == 1..Len(Jobs)

\* a step of the next-job handler, run without interruption
NextJobStep == last'.op = "nextJob" /\ (last' # last \/ disk' # disk)

\* C1: N >= 2 next-job requests against a store that held exactly one queued
\* unassigned job, all answered: exactly one response carries the job, the
\* others carry job = null.
C1_ExactlyOneClaimer ==
    (Len(reqs) >= 2 /\ \A i \in 1..Len(reqs) : reqs[i].pc = "done")
        => Cardinality({i \in 1..Len(reqs) : reqs[i].job # <<>>}) = 1

\* C2 as stated: a status changes only queued -> claimed (next-job),
\* claimed -> done (complete, success) and claimed -> failed (complete,
\* failure); done and failed are final, queued never goes to done or failed.
C2_StatusFollowsStateMachine ==
    [][\A i \in JobIdx :
        LET a == Jobs[i].status
            b == disk'.printJobs[i].status
        IN  a # b =>
              \/ a = "queued" /\ b = "claimed" /\ last'.op = "nextJob"
              \/ a = "claimed" /\ b = "done"
                   /\ last'.op = "complete" /\ last'.success = JsTrue
              \/ a = "claimed" /\ b = "failed"
                   /\ last'.op = "complete" /\ last'.success # JsTrue]_vars

\* C2 amended: with handlers run one at a time, a status changes only by
\* next-job, which moves the selected queued job to claimed, and by complete,
\* which moves the named job from any status to done (success) or failed
\* (failure); so no job returns to queued and only a queued job becomes claimed.
C2_StatusChangesByClaimOrComplete ==
    [][\A i \in JobIdx :
        LET a == Jobs[i].status
            b == disk'.printJobs[i].status
        IN  a # b =>
              \/ a = "queued" /\ b = "claimed"
                   /\ last'.op = "nextJob" /\ last'.idx = i
              \/ /\ last'.op = "complete" /\ last'.idx = i
                 /\ b = IF last'.success = JsTrue THEN "done" ELSE "failed"]_vars

\* C2 witness: a complete call has just moved a claimed job to failed
C2_Witness ==
    /\ last.op = "complete" /\ last.code = 200
    /\ Jobs[last.idx].status = "failed"
    /\ Has(Jobs[last.idx], "claimedAt")

\* C3: a job next-job returns is either unassigned or targeted at the
\* requester: a job whose printerId is P # null is never returned to a
\* requester with another printerId or with none.
C3_TargetedJobsNotStolen ==
    (last.op = "nextJob" /\ last.job # <<>>) =>
        LET j == last.job[1]
        IN  j.printerId # Null =>
                /\ last.printerId # Undefined
                /\ j.printerId = last.printerId

\* C3 witness: a requester without printerId was answered null while a job
\* targeted at pi-1 was queued, and so was pi-2
C3_Witness ==
    /\ last.op = "nextJob" /\ last.job = <<>>
    /\ last.printerId \in {Undefined, "pi-2"}
    /\ \E i \in JobIdx : Jobs[i].status = "queued" /\ Jobs[i].printerId = "pi-1"

\* C4: the job next-job returns to requester P has the earliest createdAt
\* among the queued jobs targeted at P or, when there is none, among the
\* queued unassigned jobs; with no eligible job the answer is null.
C4_FirstMatchIsEarliest ==
    [][NextJobStep =>
        LET P == last'.printerId
            own == {i \in JobIdx : Jobs[i].status = "queued" /\ Jobs[i].printerId = P}
            free == {i \in JobIdx : Jobs[i].status = "queued" /\ Jobs[i].printerId = Null}
            elig == IF own # {} THEN own ELSE free
        IN  IF elig = {}
            THEN last'.job = <<>>
            ELSE /\ last'.job # <<>>
                 /\ \E i \in elig :
                        /\ Jobs[i].id = last'.job[1].id
                        /\ \A k \in elig : Jobs[i].createdAt <= Jobs[k].createdAt]_vars

\* C4 witness: next-job returned a job while a later-created job of the same
\* class stayed queued
C4_Witness ==
    /\ last.op = "nextJob" /\ last.job # <<>>
    /\ \E k \in JobIdx :
          /\ Jobs[k].status = "queued"
          /\ Jobs[k].printerId = last.job[1].printerId
          /\ Jobs[k].createdAt > last.job[1].createdAt

----------------------------------------------------------------------------
(* Properties of the print dispatcher *)

\* a step of the POST /api/print handler
PrintStep == last'.op = "print" /\ (last' # last \/ disk' # disk)

\* the request carries a session, or a sessionId that matches a stored one
Resolvable(req, store) ==
    \/ req.session # <<>>
    \/ /\ req.sessionId # <<>>
       /\ \E k \in DOMAIN store.sessions : store.sessions[k].id = req.sessionId[1]

\* the request names a host (not the empty string) in directTcpPrinter
HostGiven(req) ==
    /\ req.directTcpPrinter # <<>>
    /\ "host" \in DOMAIN req.directTcpPrinter[1]
    /\ req.directTcpPrinter[1].host # EmptyStr

\* the request names a printerId (not the empty string)
PrinterIdGiven(req) == req.printerId \notin {Undefined, EmptyStr}

\* the configuration, as documented: CENTRAL_MODE=1, PRINT_MODE=tspl in any
\* case, DIRECT_PRINT=1 or true
CentralOn == env.CENTRAL_MODE = "1"
TsplMode == env.PRINT_MODE \in {"tspl", "TSPL"}
DirectOn == env.DIRECT_PRINT \in {"1", "true"}

AttemptKinds(attempts) == {attempts[k].kind : k \in DOMAIN attempts}

\* C5: a request with a resolvable session and directTcpPrinter.host takes the
\* TCP branch under every CENTRAL_MODE, PRINT_MODE and printerId: the store is
\* left as it was (no job appended) and no raw write, lp or enqueue happens.
C5_TcpTakesPrecedence ==
    [][(PrintStep /\ Resolvable(last'.req, disk) /\ HostGiven(last'.req)) =>
        /\ last'.branch = "tcp"
        /\ disk' = disk
        /\ AttemptKinds(last'.attempts) \subseteq {"tcp"}
        /\ last'.rendered = <<"tspl">>]_vars

\* C5 witness: the TCP adapter answered a request that also named a printerId,
\* with CENTRAL_MODE=1 and PRINT_MODE=tspl
C5_Witness ==
    /\ last.op = "print" /\ last.branch = "tcp" /\ last.code = 200
    /\ last.req.printerId = "pi-1"
    /\ CentralOn /\ TsplMode
    /\ Len(last.attempts) = 1

\* C6: a request with a resolvable session and no directTcpPrinter.host, with
\* CENTRAL_MODE on or a printerId given, appends exactly one job, queued, with
\* the given printerId or null, and is answered at once with that job's id and
\* status queued; nothing is rendered and no raw write or lp happens, whatever
\* PRINT_MODE is.
C6_QueueBranchEnqueues ==
    [][(/\ PrintStep /\ Resolvable(last'.req, disk) /\ ~HostGiven(last'.req)
        /\ (CentralOn \/ PrinterIdGiven(last'.req))) =>
        LET n == Len(disk.printJobs)
            j == disk'.printJobs[n + 1]
        IN  /\ Len(disk'.printJobs) = n + 1
            /\ SubSeq(disk'.printJobs, 1, n) = disk.printJobs
            /\ disk'.sessions = disk.sessions
            /\ disk'.agents = disk.agents
            /\ j.status = "queued"
            /\ j.printerId = IF PrinterIdGiven(last'.req) THEN last'.req.printerId ELSE Null
            /\ \A k \in 1..n : disk.printJobs[k].id # j.id
            /\ last'.code = 200
            /\ last'.body.status = "queued"
            /\ last'.body.jobId = j.id
            /\ AttemptKinds(last'.attempts) = {"enqueue"}
            /\ Len(last'.attempts) = 1
            /\ last'.rendered = <<>>]_vars

\* C6 witness: a job was enqueued for pi-1 with CENTRAL_MODE off and
\* PRINT_MODE=tspl
C6_Witness ==
    /\ last.op = "print" /\ last.branch = "queue"
    /\ ~CentralOn /\ TsplMode /\ DirectOn
    /\ last.req.printerId = "pi-1"
    /\ Len(Jobs) >= 1 /\ Jobs[Len(Jobs)].printerId = "pi-1"

\* C7: a request with a resolvable session, no directTcpPrinter.host, CENTRAL_MODE
\* off and no printerId: with PRINT_MODE tspl in any case the TSPL program goes
\* to the raw device and/or lp -o raw and no PDF is rendered; with any other
\* PRINT_MODE the PDF goes to lp with media flags and no TSPL program is sent.
C7_TsplOrPdf ==
    [][(/\ PrintStep /\ Resolvable(last'.req, disk) /\ ~HostGiven(last'.req)
        /\ ~CentralOn /\ ~PrinterIdGiven(last'.req)) =>
        LET a == last'.attempts IN
        /\ disk' = disk
        /\ Len(a) >= 1
        /\ IF TsplMode
           THEN /\ last'.branch = "tspl"
                /\ last'.rendered = <<"tspl">>
                /\ \A k \in DOMAIN a :
                      \/ a[k].kind = "raw"
                      \/ a[k].kind = "lp" /\ a[k].args = <<"-o", "raw">>
                /\ a[1].kind = IF DirectOn THEN "raw" ELSE "lp"
           ELSE /\ last'.branch = "pdf"
                /\ last'.rendered = <<"pdf">>
                /\ Len(a) = 1
                /\ a[1].kind = "lp"
                /\ a[1].args[1] = "-o" /\ a[1].args[2] = "media=Custom.189x72"]_vars

\* C7 witness: with PRINT_MODE=TSPL the raw write failed and lp -o raw ran
C7_Witness ==
    /\ last.op = "print" /\ last.branch = "tspl"
    /\ env.PRINT_MODE = "TSPL"
    /\ Len(last.attempts) = 2
    /\ last.attempts[2].kind = "lp"

\* C8: a print request makes at most one transport attempt, except that in
\* tspl mode with DIRECT_PRINT on a failed raw-device write is followed by
\* exactly one lp -o raw attempt; never more than two attempts, never attempts
\* of two branches.
C8_OneAttemptOrFallback ==
    last.op = "print" =>
        LET a == last.attempts IN
        /\ \/ Len(a) <= 1
           \/ /\ Len(a) = 2
              /\ a[1].kind = "raw" /\ a[1].outcome = "throws"
              /\ a[2].kind = "lp" /\ a[2].args = <<"-o", "raw">>
              /\ TsplMode /\ DirectOn
        /\ \A k \in DOMAIN a :
              (a[k].kind = "raw" /\ a[k].outcome = "throws") => Len(a) = 2

\* C8 witness: a request made two attempts
C8_Witness ==
    /\ last.op = "print"
    /\ Len(last.attempts) = 2
    /\ last.attempts[1].outcome = "throws"

\* C9: a request with no inline session whose sessionId is absent or matches
\* no stored session is answered 400 with no transport attempt, nothing
\* rendered and the store unchanged.
C9_UnresolvableRejected ==
    [][(/\ PrintStep
        /\ last'.req.session = <<>>
        /\ \/ last'.req.sessionId = <<>>
           \/ \A k \in DOMAIN disk.sessions :
                 disk.sessions[k].id # last'.req.sessionId[1]) =>
        /\ last'.code = 400
        /\ last'.attempts = <<>>
        /\ last'.rendered = <<>>
        /\ disk' = disk]_vars

\* C9 witness: a request naming a TCP printer and a printerId, with a
\* sessionId that matches nothing, was answered 400
C9_Witness ==
    /\ last.op = "print" /\ last.code = 400
    /\ last.req.sessionId = <<1>>
    /\ disk.sessions = <<>>
    /\ HostGiven(last.req) /\ PrinterIdGiven(last.req)

----------------------------------------------------------------------------
(* Properties of job completion *)

\* C10: after complete(jobId, success, error) on an existing job, the job is
\* done when success is true, failed with a non-empty error field when success
\* is false, and has finishedAt set in both cases.
C10_CompleteRecordsOutcome ==
    (last.op = "complete" /\ last.code = 200 /\ last.success \in {JsTrue, JsFalse}) =>
        LET j == Jobs[last.idx] IN
        /\ "finishedAt" \in DOMAIN j
        /\ IF last.success = JsTrue
           THEN j.status = "done"
           ELSE /\ j.status = "failed"
                /\ "error" \in DOMAIN j
                /\ j.error # EmptyStr

\* C11: in every store state a job carries an error field only if its status
\* is failed, whatever enqueue, next-job and complete calls (repeated
\* completes included) came before.
C11_ErrorOnlyWhenFailed ==
    \A i \in JobIdx : "error" \in DOMAIN Jobs[i] => Jobs[i].status = "failed"

----------------------------------------------------------------------------
(* Properties of the store under overlapping handlers *)

ReqIdx == 1..Len(reqs)

\* the store holds a job with this id
HasJob(store, id) == \E k \in DOMAIN store.printJobs : store.printJobs[k].id = id

\* the store shows the mutation that the answered request r reported:
\* the enqueued job is there, the claimed job is no longer queued, the
\* completed job is done or failed, the agent is registered, the created
\* session is there, the deleted session is gone
Reflects(store, r) ==
    \/ r.code \notin {200, 201, 204}
    \/ r.op = "print" /\ HasJob(store, r.jobId)
    \/ /\ r.op = "nextJob"
       /\ \/ r.job = <<>>
          \/ \E k \in DOMAIN store.printJobs :
                /\ store.printJobs[k].id = r.job[1].id
                /\ store.printJobs[k].status # "queued"
    \/ /\ r.op = "complete"
       /\ \E k \in DOMAIN store.printJobs :
             /\ store.printJobs[k].id = r.jobId
             /\ store.printJobs[k].status \in {"done", "failed"}
    \/ r.op = "heartbeat" /\ r.printerId \in DOMAIN store.agents
    \/ r.op = "createSession" /\ \E k \in DOMAIN store.sessions : store.sessions[k].id = r.id
    \/ r.op = "patchSession"
    \/ r.op = "deleteSession" /\ \A k \in DOMAIN store.sessions : store.sessions[k].id # r.id

\* C12: the session snapshot of a job is the same in every later state:
\* no step of any handler (PATCH or DELETE of the session, next-job,
\* complete, heartbeat, enqueue) changes job.session of a stored job.
C12_SnapshotNeverChanges ==
    [][\A i \in JobIdx : \A k \in DOMAIN disk'.printJobs :
          disk'.printJobs[k].id = Jobs[i].id =>
              disk'.printJobs[k].session = Jobs[i].session]_vars

\* C12 witness: a job printed from session 1 is stored, and session 1 has
\* since been patched or deleted
C12_Witness ==
    \E i \in JobIdx :
        /\ Jobs[i].session.id = 1
        /\ \A k \in DOMAIN disk.sessions :
              disk.sessions[k].id = 1 =>
                  \/ disk.sessions[k].amount_oz # Jobs[i].session.amount_oz
                  \/ disk.sessions[k].notes # Jobs[i].session.notes

\* C13: once an enqueue has returned a job id, a job with that id is in the
\* store in every later state.
C13_JobsNeverDeleted ==
    \A i \in ReqIdx :
        (reqs[i].op = "print" /\ reqs[i].pc = "done" /\ reqs[i].code = 200)
            => HasJob(disk, reqs[i].jobId)

\* C14: when overlapping mutating requests have all been answered with
\* success, the store reflects every one of their mutations.
C14_NoLostUpdate ==
    (\A i \in ReqIdx : reqs[i].pc = "done")
        => \A i \in ReqIdx : Reflects(disk, reqs[i])

\* C15: a success response is sent only after the write of the mutated store
\* has completed: in the state in which a handler answers, data.json shows
\* its mutation.
C15_ResponseAfterWrite ==
    [][\A i \in ReqIdx :
          (reqs[i].pc # "done" /\ reqs'[i].pc = "done") => Reflects(disk', reqs'[i])]_vars

\* C15 witness: an enqueue and a next-job that claimed a job have both been
\* answered
C15_Witness ==
    /\ \E i \in ReqIdx : reqs[i].op = "print" /\ reqs[i].pc = "done" /\ reqs[i].code = 200
    /\ \E i \in ReqIdx : reqs[i].op = "nextJob" /\ reqs[i].pc = "done" /\ reqs[i].job # <<>>

----------------------------------------------------------------------------
(* Scenarios of the job queue, handlers run one at a time *)

\* a step of the complete handler
CompleteStep == last'.op = "complete" /\ (last' # last \/ disk' # disk)

QueuedJobs == {i \in JobIdx : Jobs[i].status = "queued"}

\* C16: when the only queued job is an unassigned one, a next-job poll by
\* pi-1 returns that job and its status becomes claimed; when the agent then
\* reports success on the claimed job it is done with finishedAt set; a
\* next-job poll by pi-1 with no queued job left returns null.
C16_EnqueueClaimCompleteThenNull ==
    [][/\ (/\ NextJobStep /\ last'.printerId = "pi-1"
           /\ Cardinality(QueuedJobs) = 1
           /\ \A i \in QueuedJobs : Jobs[i].printerId = Null) =>
              \A i \in QueuedJobs :
                  /\ last'.job # <<>>
                  /\ last'.job[1].id = Jobs[i].id
                  /\ last'.job[1].status = "claimed"
                  /\ disk'.printJobs[i].status = "claimed"
       /\ (/\ CompleteStep /\ last'.code = 200 /\ last'.success = JsTrue
           /\ Jobs[last'.idx].status = "claimed") =>
              /\ disk'.printJobs[last'.idx].status = "done"
              /\ "finishedAt" \in DOMAIN disk'.printJobs[last'.idx]
       /\ (NextJobStep /\ last'.printerId = "pi-1" /\ QueuedJobs = {}) =>
              /\ last'.job = <<>>
              /\ disk' = disk]_vars

\* C16 witness: the one job, enqueued unassigned, was claimed and completed,
\* and the poll by pi-1 that followed was answered null
C16_Witness ==
    /\ Len(Jobs) = 1
    /\ Jobs[1].printerId = Null /\ Jobs[1].status = "done"
    /\ "claimedAt" \in DOMAIN Jobs[1] /\ "finishedAt" \in DOMAIN Jobs[1]
    /\ last.op = "nextJob" /\ last.printerId = "pi-1" /\ last.job = <<>>

\* C17: a next-job request, with any printerId or none, that finds no queued
\* job targeted at its printerId but a queued unassigned one, is answered with
\* a queued unassigned job, and every targeted job stays as it was.
C17_UnassignedClaimableByAny ==
    [][(/\ NextJobStep
        /\ \A i \in QueuedJobs : Jobs[i].printerId # last'.printerId
        /\ \E i \in QueuedJobs : Jobs[i].printerId = Null) =>
           /\ last'.job # <<>>
           /\ last'.job[1].printerId = Null
           /\ \E i \in QueuedJobs :
                 Jobs[i].printerId = Null /\ Jobs[i].id = last'.job[1].id
           /\ \A i \in JobIdx :
                 Jobs[i].printerId # Null => disk'.printJobs[i] = Jobs[i]]_vars

\* C17 witness: with a job targeted at pi-1 queued, a poll by pi-2 was
\* answered with the unassigned job, and the pi-1 job is still queued
C17_Witness ==
    /\ last.op = "nextJob" /\ last.printerId = "pi-2"
    /\ last.job # <<>> /\ last.job[1].printerId = Null
    /\ \E i \in JobIdx : Jobs[i].printerId = "pi-1" /\ Jobs[i].status = "queued"

----------------------------------------------------------------------------
(* The TCP adapter of POST /api/print: the socket, its listeners and timers *)

DefaultTcpTimeoutMs == 5000
GraceMs == 100

\* Number(process.env.TCP_PRINT_TIMEOUT_MS || 5000), on the values drawn
timeoutMs ==
    LET v == Or(Get(env, "TCP_PRINT_TIMEOUT_MS"), "5000")
    IN  IF v = "0" THEN 0 ELSE IF v = "250" THEN 250 ELSE DefaultTcpTimeoutMs

\* a socket on which setTimeout arms nothing
TimerNeverArmed(ms) == FALSE

\* sock.setTimeout(ms, cb): 0 disables the idle timer
TimerArmed(ms) == ms > 0

\* a finish without its done flag: every call answers
FinishUnguarded(r, err) ==
    [r EXCEPT !.done = TRUE, !.sock = "destroyed", !.timer = FALSE,
              !.pc = "done", !.cause = err,
              !.responses = Append(@, IF err = Null THEN 200 ELSE 502)]

\* finish(err): the first call destroys the socket and sends the response,
\* 502 with an error and 200 without; later calls return at once
Finish(r, err) ==
    IF r.done THEN r
    ELSE [r EXCEPT !.done = TRUE, !.sock = "destroyed", !.timer = FALSE,
                   !.pc = "done", !.cause = err,
                   !.responses = Append(@, IF err = Null THEN 200 ELSE 502)]

\* the handler up to its return: the program is built, net.connect is called
\* (it throws on a port out of range, which the catch answers with 500), the
\* idle timer is set and the listeners are attached
BeginTcp(req) ==
    /\ TcpRequested(req)
    /\ ResolveSession(req, readData) # <<>>
    /\ IF TcpPort(req) > MaxPort
       THEN reqs' = Append(reqs, [op |-> "tcp", req |-> req, pc |-> "done",
                                  sock |-> "none", writing |-> FALSE, grace |-> "none",
                                  timer |-> FALSE, done |-> FALSE, cause |-> "throws",
                                  responses |-> <<500>>])
       ELSE reqs' = Append(reqs, [op |-> "tcp", req |-> req, pc |-> "waiting",
                                  sock |-> "connecting", writing |-> FALSE,
                                  grace |-> "none", timer |-> TimerArmed(timeoutMs),
                                  done |-> FALSE, cause |-> Null, responses |-> <<>>])
    /\ UNCHANGED <<env, disk, now, nextId, last>>

\* 'connect': sock.write(program, 'utf8', callback) is issued
SockConnect(i) ==
    /\ reqs[i].op = "tcp" /\ reqs[i].sock = "connecting"
    /\ reqs' = [reqs EXCEPT ![i].sock = "connected", ![i].writing = TRUE]
    /\ UNCHANGED <<env, disk, now, nextId, last>>

\* the write callback runs (after the flush, or with an error once the socket
\* is destroyed; the callback ignores its argument): the grace timer is set
WriteCallback(i) ==
    /\ reqs[i].op = "tcp" /\ reqs[i].writing
    /\ reqs' = [reqs EXCEPT ![i].writing = FALSE, ![i].grace = "armed"]
    /\ UNCHANGED <<env, disk, now, nextId, last>>

\* the grace timer fires: finish(null)
GraceFires(i) ==
    /\ reqs[i].op = "tcp" /\ reqs[i].grace = "armed"
    /\ reqs' = [reqs EXCEPT ![i] = Finish([@ EXCEPT !.grace = "fired"], Null)]
    /\ UNCHANGED <<env, disk, now, nextId, last>>

\* 'error' (refused, unreachable, reset by the peer): finish(err)
SockError(i) ==
    /\ reqs[i].op = "tcp" /\ reqs[i].sock \in {"connecting", "connected"}
    /\ reqs' = [reqs EXCEPT ![i] = Finish(@, "error")]
    /\ UNCHANGED <<env, disk, now, nextId, last>>

\* 'timeout': the socket was idle for timeoutMs; finish(new Error('timeout')).
\* The idle timer restarts at the write, so within the grace period it can
\* fire only when timeoutMs does not exceed the grace delay
SockTimeout(i) ==
    /\ reqs[i].op = "tcp" /\ reqs[i].timer
    /\ reqs[i].sock \in {"connecting", "connected"}
    /\ reqs[i].grace = "armed" => timeoutMs <= GraceMs
    /\ reqs' = [reqs EXCEPT ![i] = Finish(@, "timeout")]
    /\ UNCHANGED <<env, disk, now, nextId, last>>

\* the peer closes the connection in an orderly way: 'end' and 'close' have no
\* listener, the socket is closed and its idle timer cleared
PeerClose(i) ==
    /\ reqs[i].op = "tcp" /\ reqs[i].sock = "connected"
    /\ reqs' = [reqs EXCEPT ![i].sock = "closed", ![i].timer = FALSE]
    /\ UNCHANGED <<env, disk, now, nextId, last>>

TcpEnvValues ==
    {CentralEnv, CentralEnv @@ [TCP_PRINT_TIMEOUT_MS |-> "250"],
     CentralEnv @@ [TCP_PRINT_TIMEOUT_MS |-> "0"]}

TcpRequests ==
    {PrintRequest(<<>>, <<InlineSession>>, p, <<d>>) :
        p \in {Undefined, "pi-1"},
        d \in {[host |-> "10.0.0.9"], [host |-> "10.0.0.9", port |-> 70000]}}

InitTcp ==
    /\ env \in TcpEnvValues
    /\ disk = EmptyStore
    /\ now = 1
    /\ nextId = 1
    /\ reqs = <<>>
    /\ last = NoLast
    /\ agent = NoAgent

NextTcp ==
    \/ \E r \in TcpRequests : Len(reqs) < MaxReqs /\ BeginTcp(r) /\ Idle
    \/ \E i \in 1..Len(reqs) : SockConnect(i) /\ Idle
    \/ \E i \in 1..Len(reqs) : WriteCallback(i) /\ Idle
    \/ \E i \in 1..Len(reqs) : GraceFires(i) /\ Idle
    \/ \E i \in 1..Len(reqs) : SockError(i) /\ Idle
    \/ \E i \in 1..Len(reqs) : SockTimeout(i) /\ Idle
    \/ \E i \in 1..Len(reqs) : PeerClose(i) /\ Idle

SpecTcp == InitTcp /\ [][NextTcp]_vars

\* Node runs due timers and callbacks: an armed idle timer, an armed grace
\* timer and a pending write callback are not postponed for ever. Nothing is
\* assumed about the network.
TcpFairness ==
    \A i \in 1..MaxReqs :
        /\ WF_vars(i \in 1..Len(reqs) /\ SockTimeout(i) /\ Idle)
        /\ WF_vars(i \in 1..Len(reqs) /\ GraceFires(i) /\ Idle)
        /\ WF_vars(i \in 1..Len(reqs) /\ WriteCallback(i) /\ Idle)

LiveTcp == SpecTcp /\ TcpFairness

----------------------------------------------------------------------------
(* Properties of the TCP adapter *)

\* TCP_PRINT_TIMEOUT_MS is unset or names a positive delay
TimeoutConfigured == Get(env, "TCP_PRINT_TIMEOUT_MS") # "0"

C19_CloseDuringGraceIsSuccess ==
    [][\A i \in ReqIdx :
          (/\ reqs[i].op = "tcp" /\ reqs[i].grace = "armed"
           /\ reqs[i].responses = <<>> /\ reqs'[i].responses # <<>>
           /\ reqs'[i].cause # "timeout") =>
              reqs'[i].responses = <<200>>]_vars

----------------------------------------------------------------------------
(* The print agent: agent.js *)

\* process.env.PRINTER_ID of the agent
PRINTER_ID == "pi-1"

serverVars == <<env, disk, now, nextId, reqs, last>>

\* how an await fetchJson(...) settles: the server handled the request and
\* the response was parsed ("ok"); the server handled it but the response
\* never arrived or was no JSON ("lost", the promise rejects); the request
\* never reached the server ("unsent", the promise rejects)
FetchOutcomes == {"ok", "lost", "unsent"}

\* fs.writeFileSync(DEVICE, program) returns or throws
DeviceOutcomes == {"ok", "throws"}

RemoveAt(s, k) == SubSeq(s, 1, k - 1) \o SubSeq(s, k + 1, Len(s))

\* loop(): a new iteration runs up to its first await, the heartbeat
LoopStart(a) == [a EXCEPT !.iters = Append(@, [pc |-> "heartbeat"])]

\* a loop that schedules itself both in catch and in finally
SettleTwice(a, k) == [a EXCEPT !.iters = RemoveAt(@, k), !.timers = @ + 2]

\* a loop that schedules the next iteration at the end of the try block, so
\* not after an exception
SettleUnscheduled(a, k) == [a EXCEPT !.iters = RemoveAt(@, k)]

\* finally { setTimeout(loop, INTERVAL_MS) }: iteration k is over and one
\* timer is pending
Settle(a, k) == [a EXCEPT !.iters = RemoveAt(@, k), !.timers = @ + 1]

\* fetchJson(.../complete, {success, ...}) is called: the agent's log of the
\* completion reports it has issued
Report(a, jobId, success, printed) ==
    [a EXCEPT !.reports = Append(@, [jobId |-> jobId, success |-> success,
                                     printed |-> printed])]

\* the pending timer fires: loop()
TimerFires ==
    /\ agent.timers > 0
    /\ agent' = LoopStart([agent EXCEPT !.timers = @ - 1])
    /\ UNCHANGED serverVars

\* await fetchJson(heartbeat) settles; on success the next-job request is sent
AgentHeartbeatReturns(k, o) ==
    /\ agent.iters[k].pc = "heartbeat"
    /\ IF o = "unsent" THEN UNCHANGED serverVars
       ELSE Heartbeat(PRINTER_ID, "1.0.0", "tspl")
    /\ agent' = IF o = "ok" THEN [agent EXCEPT !.iters[k] = [pc |-> "nextJob"]]
                ELSE Settle(agent, k)

\* an agent that reports printed jobs only: a write that threw ends the
\* iteration without a completion report
AgentNextJobReturnsSilent(k, o, w) ==
    /\ agent.iters[k].pc = "nextJob"
    /\ IF o = "unsent" THEN UNCHANGED serverVars
       ELSE NextJob(PRINTER_ID)
    /\ agent' = IF o # "ok" THEN Settle(agent, k)
                ELSE IF last'.job = <<>> \/ w # "ok" THEN Settle(agent, k)
                ELSE [Report(agent, last'.job[1].id, TRUE, TRUE)
                        EXCEPT !.device = <<tsplForSession(last'.job[1].session)>>,
                               !.iters[k] =
                        [pc |-> "completeTrue", jobId |-> last'.job[1].id,
                         printed |-> TRUE, message |-> Undefined]]

\* await fetchJson(next-job) settles; with a job, the program is written to
\* the device and the completion report is sent: success after a write that
\* returned, failure with e.message after one that threw
AgentNextJobReturns(k, o, w) ==
    /\ agent.iters[k].pc = "nextJob"
    /\ IF o = "unsent" THEN UNCHANGED serverVars
       ELSE NextJob(PRINTER_ID)
    /\ agent' = IF o # "ok" THEN Settle(agent, k)
                ELSE IF last'.job = <<>> THEN Settle(agent, k)
                ELSE [Report(agent, last'.job[1].id, w = "ok", w = "ok")
                        EXCEPT !.device = IF w = "ok"
                                          THEN <<tsplForSession(last'.job[1].session)>>
                                          ELSE @,
                               !.iters[k] =
                        [pc |-> IF w = "ok" THEN "completeTrue" ELSE "completeFalse",
                         jobId |-> last'.job[1].id,
                         printed |-> (w = "ok"),
                         message |-> IF w = "ok" THEN Undefined ELSE "EIO"]]

\* await fetchJson(complete) settles: a rejected success report is caught by
\* the inner catch, which reports failure with e.message; a rejected failure
\* report goes to the outer catch
AgentCompleteReturns(k, o) ==
    /\ agent.iters[k].pc \in {"completeTrue", "completeFalse"}
    /\ LET it == agent.iters[k]
           success == it.pc = "completeTrue"
       IN  /\ IF o = "unsent" THEN UNCHANGED serverVars
              ELSE Complete(it.jobId, IF success THEN JsTrue ELSE JsFalse, it.message)
           /\ agent' = IF o = "ok" THEN Settle(agent, k)
                       ELSE IF success
                       THEN [Report(agent, it.jobId, FALSE, it.printed)
                               EXCEPT !.iters[k].pc = "completeFalse",
                                      !.iters[k].message = "fetch failed"]
                       ELSE Settle(agent, k)

\* the server and one agent, started
InitAgent ==
    /\ env = CentralEnv
    /\ InitStore
    /\ agent = LoopStart(NoAgent)

NextAgent ==
    \/ \E p \in PrinterIds \cup {Undefined} :
          /\ Len(disk.printJobs) < MaxJobs
          /\ PostPrint(PrintRequest(<<>>, <<InlineSession>>, p, <<>>), "-", "-", "-")
          /\ Idle
    \/ TimerFires
    \/ \E k \in 1..Len(agent.iters), o \in FetchOutcomes : AgentHeartbeatReturns(k, o)
    \/ \E k \in 1..Len(agent.iters), o \in FetchOutcomes, w \in DeviceOutcomes :
          AgentNextJobReturns(k, o, w)
    \/ \E k \in 1..Len(agent.iters), o \in FetchOutcomes : AgentCompleteReturns(k, o)

SpecAgent == InitAgent /\ [][NextAgent]_vars

\* The dispatcher, run without interruption, while heartbeat and
\* session-delete handlers read and write the store around it: the same
\* request meets different stores
DispatchEnvs ==
    {[CENTRAL_MODE |-> Undefined, PRINT_MODE |-> Undefined, DIRECT_PRINT |-> Undefined],
     [CENTRAL_MODE |-> Undefined, PRINT_MODE |-> "tspl", DIRECT_PRINT |-> "1"],
     [CENTRAL_MODE |-> "1", PRINT_MODE |-> Undefined, DIRECT_PRINT |-> Undefined]}

DispatchRequests ==
    {PrintRequest(<<1>>, <<>>, p, d) :
        p \in {Undefined, PRINTER_ID}, d \in {<<>>, <<[host |-> "10.0.0.9"]>>}}

InitDispatch ==
    /\ env \in DispatchEnvs
    /\ disk = [EmptyStore EXCEPT !.sessions = <<StoredSession>>]
    /\ now = 1
    /\ nextId = 2
    /\ reqs = <<>>
    /\ last = NoLast
    /\ agent = NoAgent

NextDispatch ==
    \/ \E r \in DispatchRequests :
          \E tc \in TcpOutcomes(r) \ {"timeout"}, rw \in RawOutcomes(r) :
             \E lp \in LpOutcomes(r, rw) \ {"enoent"} :
                /\ PostPrint(r, tc, rw, lp)
                /\ Len(disk'.printJobs) <= MaxJobs
                /\ Idle
    \/ Len(reqs) < MaxReqs /\ BeginHeartbeat(PRINTER_ID, "1.0.0", Undefined) /\ Idle
    \/ Len(reqs) < MaxReqs /\ BeginDeleteSession(1) /\ Idle
    \/ \E i \in 1..Len(reqs) : FinishWrite(i) /\ Idle

SpecDispatch == InitDispatch /\ [][NextDispatch]_vars

\* Labels for one stored session and for inline sessions, on a server that
\* does not run in central mode, with one agent on a reliable network:
\* every renderer is reached (TCP, tspl, PDF, and the agent through a job
\* targeted at it)
LabelEnvs ==
    {[CENTRAL_MODE |-> Undefined, PRINT_MODE |-> m, DIRECT_PRINT |-> Undefined] :
        m \in {Undefined, "tspl"}}

\* amounts in hundredths of an ounce
LabelAmounts == {5, 12, 22, 49, 100, 250}

\* notes values: absent, null, '', and texts with a quote and with a newline
LabelNotes == {Undefined, Null, EmptyStr, "a", "say \"hi\"", "a\nb"}

LabelSession(id, amount, notes) ==
    LET base == [id |-> id, timestamp |-> 1, amount_oz |-> amount,
                 use_by_fridge |-> <<1, FridgeDays, "d">>,
                 use_by_frozen |-> <<1, FrozenMonths, "mo">>]
    IN  IF notes = Undefined THEN base ELSE SetField(base, "notes", notes)

\* inline sessions of a request: amount 0, and no amount_oz at all
InlineSessions ==
    {LabelSession(0, 0, "a"),
     [id |-> 0, timestamp |-> 1, use_by_fridge |-> <<1, FridgeDays, "d">>,
      use_by_frozen |-> <<1, FrozenMonths, "mo">>]}

LabelRequests ==
    {PrintRequest(<<1>>, <<>>, p, d) :
        p \in {Undefined, PRINTER_ID}, d \in {<<>>, <<[host |-> "10.0.0.9"]>>}}
    \cup {PrintRequest(<<>>, <<i>>, p, <<>>) :
            i \in InlineSessions, p \in {Undefined, PRINTER_ID}}

\* stored sessions: every amount, and every notes value
LabelSessions ==
    {LabelSession(1, a, "a") : a \in LabelAmounts}
    \cup {LabelSession(1, 250, n) : n \in LabelNotes}

InitLabel ==
    /\ env \in LabelEnvs
    /\ \E s \in LabelSessions : disk = [EmptyStore EXCEPT !.sessions = <<s>>]
    /\ now = 1
    /\ nextId = 2
    /\ reqs = <<>>
    /\ last = NoLast
    /\ agent = LoopStart(NoAgent)

NextLabel ==
    \/ \E r \in LabelRequests :
          \E tc \in TcpOutcomes(r) \cap {"ok", "-"}, lp \in LpOutcomes(r, "-") \cap {"exit0", "-"} :
              /\ PostPrint(r, tc, "-", lp)
              /\ Len(disk'.printJobs) <= MaxDispatchJobs
              /\ Idle
    \/ TimerFires
    \/ \E k \in 1..Len(agent.iters) : AgentHeartbeatReturns(k, "ok")
    \/ \E k \in 1..Len(agent.iters), w \in DeviceOutcomes : AgentNextJobReturns(k, "ok", w)
    \/ \E k \in 1..Len(agent.iters) : AgentCompleteReturns(k, "ok")

SpecLabel == InitLabel /\ [][NextLabel]_vars

\* every await of the iteration settles (fetchJson resolves or rejects) and
\* the timer set by setTimeout(loop, INTERVAL_MS) fires
AgentStep ==
    \/ \E k \in 1..Len(agent.iters), o \in FetchOutcomes : AgentHeartbeatReturns(k, o)
    \/ \E k \in 1..Len(agent.iters), o \in FetchOutcomes, w \in DeviceOutcomes :
          AgentNextJobReturns(k, o, w)
    \/ \E k \in 1..Len(agent.iters), o \in FetchOutcomes : AgentCompleteReturns(k, o)

AgentFairness == WF_vars(TimerFires) /\ WF_vars(AgentStep)

LiveAgent == SpecAgent /\ AgentFairness

----------------------------------------------------------------------------
(* Properties of the agent *)

\* C20: the agent never runs two polling cycles at once: at most one
\* iteration of loop is in progress, and while one is in progress no timer
\* for the next is pending.
C20_OneIterationAtATime ==
    /\ Len(agent.iters) <= 1
    /\ Len(agent.iters) + agent.timers = 1

\* C20 witness: an iteration is polling for a job after an earlier one
\* printed a job and reported it
C20_Witness ==
    /\ Len(agent.iters) = 1 /\ agent.iters[1].pc = "nextJob"
    /\ \E i \in JobIdx : Jobs[i].status = "done" /\ "claimedAt" \in DOMAIN Jobs[i]

\* C21: the agent loop never stops: every step that ends an iteration,
\* whatever the iteration did and whichever of its steps threw, leaves
\* exactly one more timer pending, and a pending timer always leads to a new
\* iteration and an iteration to a pending timer.
C21_LoopNeverStops ==
    /\ [][Len(agent'.iters) < Len(agent.iters) => agent'.timers = agent.timers + 1]_vars
    /\ (agent.timers > 0) ~> (Len(agent.iters) > 0)
    /\ (Len(agent.iters) > 0) ~> (agent.timers > 0)

\* C21 witness: a timer is pending after an iteration whose failure report
\* for a job it could not print was rejected as well
C21_Witness ==
    /\ agent.timers = 1
    /\ Len(agent.reports) > 0
    /\ ~agent.reports[Len(agent.reports)].success
    /\ \E i \in JobIdx : Jobs[i].status = "claimed"

----------------------------------------------------------------------------
(* Properties of completion and of the queue's frame *)

\* C22: a complete request naming a job id that is not in the store is
\* answered 404 and leaves the whole store unchanged: the handler returns
\* before it modifies any job and before writeData, so nothing is written.
C22_UnknownJobNotFound ==
    [][\A i \in 1..Len(reqs') :
          (i > Len(reqs) /\ reqs'[i].op = "complete" /\ ~HasJob(disk, reqs'[i].jobId))
              => /\ reqs'[i].code = 404
                 /\ reqs'[i].pc = "done"
                 /\ "store" \notin DOMAIN reqs'[i]
                 /\ disk' = disk]_vars

\* C22 witness: a complete request for an unknown job was rejected after
\* another job had been claimed; that job is still claimed
C22_Witness ==
    /\ \E i \in ReqIdx : reqs[i].op = "complete" /\ reqs[i].code = 404
    /\ \E i \in JobIdx : Jobs[i].status = "claimed"

C24_SecondCompleteOverwrites ==
    [][\A i \in JobIdx :
          (CompleteStep /\ last'.jobId = Jobs[i].id /\ Has(Jobs[i], "finishedAt"))
              => /\ last'.code = 200
                 /\ disk'.printJobs[i].status =
                        IF Truthy(last'.success) THEN "done" ELSE "failed"
                 /\ disk'.printJobs[i].finishedAt = now]_vars

\* C24 witness: a job that was reported failed has then been reported done
\* at a later time
C24_Witness ==
    /\ last.op = "complete" /\ last.code = 200 /\ last.success = JsTrue
    /\ Jobs[last.idx].status = "done"
    /\ Has(Jobs[last.idx], "error")
    /\ Jobs[last.idx].finishedAt = MaxClock

----------------------------------------------------------------------------
(* Properties of the label formatter *)

\* the lines of a text in which every line ends in a newline
RECURSIVE Lines(_)
Lines(text) ==
    IF Len(text) = 0 THEN <<>>
    ELSE LET end == CHOOSE i \in 1..Len(text) :
                        /\ SubSeq(text, i, i) = "\n"
                        /\ \A k \in 1..(i - 1) : SubSeq(text, k, k) # "\n"
         IN  <<SubSeq(text, 1, end - 1)>> \o Lines(SubSeq(text, end + 1, Len(text)))

Abs(n) == IF n < 0 THEN -n ELSE n

\* x * 29.5735 rounded to the nearest integer, x in hundredths of an ounce
RoundedMl(x) ==
    CHOOSE n \in 0..(x + 1) : 2 * Abs(n * 1000000 - x * MlPerOzE4) <= 1000000

\* the amount a request's session has: the stored session's, or 0 for the
\* inline sessions
SourceAmount(sessionId) == IF sessionId = 1 THEN disk.sessions[1].amount_oz ELSE 0
RequestAmount(req) == IF req.session # <<>> THEN 0 ELSE SourceAmount(req.sessionId[1])

\* the amount line of a program text, and the job of the program on the
\* agent's device
AmountLine(text) == Lines(text)[9]
ExpectedAmountLine(x) ==
    "TEXT 30,50,\"0\",0,1,2,\"" \o toFixed2(x) \o " oz (" \o ToString(RoundedMl(x)) \o " ml)\""
PrintedReports == {i \in 1..Len(agent.reports) : agent.reports[i].printed}
LastPrintedJob ==
    LET i == CHOOSE i \in PrintedReports : \A k \in PrintedReports : k <= i
    IN  CHOOSE j \in JobIdx : Jobs[j].id = agent.reports[i].jobId

\* C25: for every amount x of the set, the ml figure is x * 29.5735 rounded
\* to the nearest integer in every rendering: the TSPL program of the TCP
\* and tspl branches, the PDF label, the job snapshot's amount, and the
\* program the agent writes for the job.
C25_MlDerivedIdentically ==
    /\ (last.op = "print" /\ last.output # <<>>) =>
          LET out == last.output[1]
              x == RequestAmount(last.req)
          IN  IF out.builder \in {"tcp", "tspl"}
              THEN AmountLine(Rendering(out)) = ExpectedAmountLine(x)
              ELSE Rendering(out).ml = "  (" \o ToString(RoundedMl(x)) \o " ml)"
    /\ \A i \in JobIdx : Jobs[i].session.amount_oz = SourceAmount(Jobs[i].session.id)
    /\ agent.device # <<>> =>
          AmountLine(agent.device[1]) =
              ExpectedAmountLine(SourceAmount(Jobs[LastPrintedJob].session.id))

\* C25 witness: the agent has written the program of a 0.22 oz session
\* (6.506 ml, 7 on the label) and the server has then rendered the same
\* session itself
C25_Witness ==
    /\ agent.device # <<>>
    /\ disk.sessions[1].amount_oz = 22
    /\ Jobs[LastPrintedJob].session.id = 1
    /\ last.op = "print" /\ last.output # <<>> /\ last.req.session = <<>>

\* the number of lines the TSPL program of session s is to have
ExpectedLineCount(s) == IF Truthy(Get(s, "notes")) THEN 13 ELSE 12

\* C26: the TSPL program has 13 lines when the session's notes is a
\* non-empty value and 12 lines, the notes line left out without a blank
\* line in its place, when notes is absent, null or the empty string; this
\* holds for the program of the TCP branch, of the tspl branch and of the
\* agent, whose job snapshot stores absent notes as the empty string.
C26_TsplLineCount ==
    /\ (last.op = "print" /\ last.output # <<>> /\ last.output[1].builder # "pdf") =>
          LineCount(Rendering(last.output[1])) = ExpectedLineCount(last.output[1].s)
    /\ agent.device # <<>> =>
          LineCount(agent.device[1]) = ExpectedLineCount(Jobs[LastPrintedJob].session)

----------------------------------------------------------------------------
(* Determinism of the dispatcher *)

\* the outcomes of the adapters a request invoked, in order: each succeeded
\* or failed
Outcomes(rec) == [i \in DOMAIN rec.attempts |-> rec.attempts[i].outcome \in {"ok", "exit0"}]

\* the mode a response reports: mode of a print, status of an enqueue, the
\* message of a failure
ResponseMode(rec) ==
    IF Has(rec.body, "mode") THEN rec.body.mode
    ELSE IF Has(rec.body, "status") THEN rec.body.status
    ELSE IF Has(rec.body, "message") THEN rec.body.message
    ELSE "none"

\* the print request answered in this step has the request fields and the
\* adapter outcomes of the one answered before it
SameInputs ==
    /\ last'.req.printerId = last.req.printerId
    /\ last'.req.directTcpPrinter = last.req.directTcpPrinter
    /\ Resolvable(last'.req, disk) = (last.branch # "none")
    /\ Outcomes(last') = Outcomes(last)

\* C27: dispatch is deterministic: a print request with the session
\* resolvability, printerId and directTcpPrinter of the print request before
\* it, under the same configuration and with the same adapter outcomes, takes
\* the same branch and gets the same response code and mode, whatever has
\* happened to the store, the agents and the job ids in between.
C27_DispatchDeterministic ==
    [][(last.op = "print" /\ last'.op = "print" /\ SameInputs)
          => /\ last'.branch = last.branch
             /\ last'.code = last.code
             /\ ResponseMode(last') = ResponseMode(last)]_vars

\* C27 witness: a targeted request was enqueued twice, before and after the
\* agent registered
C27_Witness ==
    /\ last.op = "print" /\ last.branch = "queue" /\ env.CENTRAL_MODE = Undefined
    /\ Len(Jobs) = 2
    /\ PRINTER_ID \in DOMAIN disk.agents
    /\ \E i \in ReqIdx : reqs[i].op = "heartbeat" /\ reqs[i].pc = "done"

----------------------------------------------------------------------------
(* Delivery of jobs under overlapping handlers *)

\* C28: a job is delivered by next-job at most once even when other
\* handlers interleave: a next-job response never carries the job that the
\* next-job response before it carried, whatever heartbeat, enqueue, complete
\* or session handlers read and wrote around the two requests.
C28_DeliveredAtMostOnce ==
    [][(/\ last.op = "nextJob" /\ last.job # <<>>
        /\ reqs' = reqs /\ last'.op = "nextJob" /\ last'.job # <<>>)
          => last'.job[1].id # last.job[1].id]_vars

----------------------------------------------------------------------------
(* Properties of the agent's completion reports *)

\* C29: every completion report the agent issues tells the truth about the
\* device write: success = true only after a write that returned, success =
\* false only after formatting or the write threw; a failed completion
\* request never makes the agent report a written job as failed.
C29_ReportsTruthful ==
    \A i \in 1..Len(agent.reports) : agent.reports[i].success = agent.reports[i].printed

\* C30: for each job it claims the agent issues at most one complete
\* request, in the iteration that claimed it and in no later one, whatever
\* the outcome of the device write and of the complete request.
C30_OneCompletePerJob ==
    \A i, k \in 1..Len(agent.reports) :
        i # k => agent.reports[i].jobId # agent.reports[k].jobId

----------------------------------------------------------------------------
(* The tspl branch under every setting of DIRECT_PRINT *)

DirectEnvs ==
    [CENTRAL_MODE : {Undefined},
     PRINT_MODE : {"tspl", "TSPL"},
     DIRECT_PRINT : {Undefined, "0", "false", "1", "true"}]

DirectSessions == <<StoredSession, LabelSession(2, 250, "say \"hi\"")>>

DirectRequests ==
    {PrintRequest(i, s, Undefined, <<>>) :
        i \in {<<>>, <<1>>, <<2>>, <<9>>}, s \in {<<>>, <<InlineSession>>}}

InitDirect ==
    /\ env \in DirectEnvs
    /\ disk = [EmptyStore EXCEPT !.sessions = DirectSessions]
    /\ now = 1
    /\ nextId = 1
    /\ reqs = <<>>
    /\ last = NoLast
    /\ agent = NoAgent

NextDirect ==
    \E r \in DirectRequests :
        \E rw \in RawOutcomes(r) :
            \E lp \in LpOutcomes(r, rw) :
                PostPrint(r, "-", rw, lp) /\ Idle

SpecDirect == InitDirect /\ [][NextDirect]_vars

\* C31: in tspl mode with DIRECT_PRINT on, the raw-device write is the first
\* attempt; when it succeeds the answer is 200 {printed, tspl-direct} and lp
\* is not started; when it throws, lp -o raw is started once on the same
\* program and the answer follows lp's exit code alone (0: 200 {queued,
\* tspl}; nonzero: 500). With DIRECT_PRINT off no raw-device write is made.
C31_DirectWriteThenLp ==
    (last.op = "print" /\ last.branch = "tspl") =>
        LET a == last.attempts
            s == ResolveSession(last.req, disk)[1]
        IN  /\ last.output = <<Output("tspl", s)>>
            /\ DirectOn =>
                  /\ a[1].kind = "raw"
                  /\ a[1].outcome = "ok" =>
                        /\ Len(a) = 1
                        /\ last.code = 200
                        /\ last.body = [status |-> "printed", mode |-> "tspl-direct"]
                  /\ a[1].outcome = "throws" =>
                        /\ Len(a) = 2
                        /\ a[2].kind = "lp" /\ a[2].args = <<"-o", "raw">>
                        /\ a[2].outcome = "exit0" =>
                              /\ last.code = 200
                              /\ last.body = [status |-> "queued", mode |-> "tspl"]
                        /\ a[2].outcome = "exit1" => last.code = 500
            /\ ~DirectOn =>
                  /\ Len(a) = 1
                  /\ a[1].kind = "lp"

\* C31 witness: the device write threw, lp -o raw was started after it and
\* exited with a nonzero code, and the request was answered 500
C31_Witness ==
    /\ last.op = "print" /\ last.branch = "tspl"
    /\ DirectOn
    /\ Len(last.attempts) = 2
    /\ last.attempts[1].kind = "raw" /\ last.attempts[1].outcome = "throws"
    /\ last.attempts[2].kind = "lp" /\ last.attempts[2].outcome = "exit1"
    /\ last.code = 500

----------------------------------------------------------------------------
(* The TCP adapter's listeners called in every order: the 'error' listener *)
(* and the idle-timeout callback are run whatever the state of the socket, *)
(* any number of times, also after the request was answered.               *)

\* sock.on('error', finish), called at any time after it was attached
ErrorListener(i) ==
    /\ reqs[i].op = "tcp" /\ reqs[i].sock # "none"
    /\ reqs' = [reqs EXCEPT ![i] = Finish(@, "error")]
    /\ UNCHANGED <<env, disk, now, nextId, last>>

\* the callback given to sock.setTimeout, called at any time after it was set
TimeoutListener(i) ==
    /\ reqs[i].op = "tcp" /\ reqs[i].sock # "none"
    /\ reqs' = [reqs EXCEPT ![i] = Finish(@, "timeout")]
    /\ UNCHANGED <<env, disk, now, nextId, last>>

NextTcpAny ==
    \/ \E r \in TcpRequests : Len(reqs) < MaxReqs /\ BeginTcp(r) /\ Idle
    \/ \E i \in 1..Len(reqs) : SockConnect(i) /\ Idle
    \/ \E i \in 1..Len(reqs) : WriteCallback(i) /\ Idle
    \/ \E i \in 1..Len(reqs) : GraceFires(i) /\ Idle
    \/ \E i \in 1..Len(reqs) : ErrorListener(i) /\ Idle
    \/ \E i \in 1..Len(reqs) : TimeoutListener(i) /\ Idle
    \/ \E i \in 1..Len(reqs) : PeerClose(i) /\ Idle

SpecTcpAny == InitTcp /\ [][NextTcpAny]_vars

\* C32: a TCP print request is answered at most once, and once it is answered
\* through finish its socket is destroyed, in whatever order connect, write
\* callback, grace timer, socket errors and timeouts arrive.
C32_OneTcpResponse ==
    \A i \in ReqIdx :
        reqs[i].op = "tcp" =>
            /\ Len(reqs[i].responses) <= 1
            /\ (reqs[i].responses # <<>> /\ reqs[i].sock # "none") =>
                  reqs[i].sock = "destroyed"

\* C32 witness: a request was answered 502 by a socket error while its write
\* was in flight; the write callback then ran and the grace timer fired on
\* the answered request, which still has its one response
C32_Witness ==
    \E i \in ReqIdx :
        /\ reqs[i].op = "tcp" /\ reqs[i].cause = "error"
        /\ reqs[i].grace = "fired"
        /\ reqs[i].responses = <<502>> /\ reqs[i].sock = "destroyed"

----------------------------------------------------------------------------
(* Properties of the lp subprocess paths *)

LpAttempts(attempts) == {k \in DOMAIN attempts : attempts[k].kind = "lp"}

\* C33: a print request that started lp (tspl raw or pdf) started it once
\* and is answered exactly once: 200 if and only if lp exited with code 0,
\* and a failure response (500) for a nonzero exit and for an lp that could
\* not be started.
C33_LpAnsweredOnce ==
    (last.op = "print" /\ LpAttempts(last.attempts) # {}) =>
        LET k == CHOOSE k \in LpAttempts(last.attempts) : TRUE IN
        /\ Cardinality(LpAttempts(last.attempts)) = 1
        /\ last.code \in {200, 500}
        /\ last.code = 200 <=> last.attempts[k].outcome = "exit0"

----------------------------------------------------------------------------
(* The frame of next-job and of heartbeat, handlers run one at a time *)

\* the job with status and claimedAt replaced, every other field kept
Claimed(job, t) ==
    [f \in DOMAIN job \cup {"claimedAt"} |->
        IF f = "status" THEN "claimed" ELSE IF f = "claimedAt" THEN t ELSE job[f]]

C35_OnlyQueuedSelected ==
    [][/\ (NextJobStep /\ last'.job # <<>>) =>
             /\ last'.idx \in JobIdx
             /\ Jobs[last'.idx].status = "queued"
             /\ Jobs[last'.idx].id = last'.job[1].id
       /\ \A i \in JobIdx :
             Jobs[i].status # "queued" =>
                 /\ i \in DOMAIN disk'.printJobs
                 /\ disk'.printJobs[i].id = Jobs[i].id
                 /\ disk'.printJobs[i].status # "queued"]_vars

\* C35 witness: the only job failed, and the next poll of a printer that was
\* eligible for it was answered job = null
C35_Witness ==
    /\ last.op = "nextJob" /\ last.job = <<>> /\ last.printerId = "pi-1"
    /\ Len(Jobs) = 1
    /\ Jobs[1].status = "failed"
    /\ LooseNull(Jobs[1].printerId)

----------------------------------------------------------------------------
(* Timestamps of a job *)

\* C36 as stated: in every store state a queued job has createdAt and
\* neither claimedAt nor finishedAt, a claimed job has claimedAt and no
\* finishedAt, and a done or failed job has both claimedAt and finishedAt.
C36_TimestampsAgreeWithStatus ==
    \A i \in JobIdx :
        LET j == Jobs[i] IN
        /\ j.status = "queued" =>
              Has(j, "createdAt") /\ ~Has(j, "claimedAt") /\ ~Has(j, "finishedAt")
        /\ j.status = "claimed" => Has(j, "claimedAt") /\ ~Has(j, "finishedAt")
        /\ j.status \in {"done", "failed"} =>
              Has(j, "claimedAt") /\ Has(j, "finishedAt")

\* C36 amended: every job has createdAt; a queued job has neither claimedAt
\* nor finishedAt; a claimed job has claimedAt and no finishedAt; a done or
\* failed job has finishedAt, and has claimedAt or not according to whether
\* it was claimed before it was completed.
C36_TimestampsFollowTransitions ==
    \A i \in JobIdx :
        LET j == Jobs[i] IN
        /\ Has(j, "createdAt")
        /\ j.status \in {"queued", "claimed", "done", "failed"}
        /\ j.status = "queued" => ~Has(j, "claimedAt") /\ ~Has(j, "finishedAt")
        /\ j.status = "claimed" => Has(j, "claimedAt") /\ ~Has(j, "finishedAt")
        /\ j.status \in {"done", "failed"} => Has(j, "finishedAt")

\* C36 witness: a job was claimed and then completed, and carries the three
\* timestamps
C36_Witness ==
    \E i \in JobIdx :
        /\ Jobs[i].status = "done"
        /\ Has(Jobs[i], "createdAt") /\ Has(Jobs[i], "claimedAt")
        /\ Has(Jobs[i], "finishedAt")

----------------------------------------------------------------------------
(* The queue served by one agent over a reliable network: every fetch of   *)
(* the agent is answered, handlers run one at a time, and at most MaxJobs  *)
(* jobs are ever enqueued.  The device write returns or throws.            *)

NextServed ==
    \/ \E p \in PrinterIds \cup {Undefined} :
          /\ Len(disk.printJobs) < MaxJobs
          /\ PostPrint(PrintRequest(<<>>, <<InlineSession>>, p, <<>>), "-", "-", "-")
          /\ Idle
    \/ TimerFires
    \/ \E k \in 1..Len(agent.iters) : AgentHeartbeatReturns(k, "ok")
    \/ \E k \in 1..Len(agent.iters), w \in DeviceOutcomes : AgentNextJobReturns(k, "ok", w)
    \/ \E k \in 1..Len(agent.iters) : AgentCompleteReturns(k, "ok")

SpecServed == InitAgent /\ [][NextServed]_vars

\* a step of the agent's iteration: one of its awaited fetches is answered
ServedStep ==
    \/ \E k \in 1..Len(agent.iters) : AgentHeartbeatReturns(k, "ok")
    \/ \E k \in 1..Len(agent.iters), w \in DeviceOutcomes : AgentNextJobReturns(k, "ok", w)
    \/ \E k \in 1..Len(agent.iters) : AgentCompleteReturns(k, "ok")

\* the timer of setTimeout(loop, INTERVAL_MS) fires and the iteration runs on
ServedFairness == WF_vars(TimerFires) /\ WF_vars(ServedStep)

LiveServed == SpecServed /\ ServedFairness

\* the job with this id is in the store with one of these statuses
JobIn(id, statuses) == \E i \in JobIdx : Jobs[i].id = id /\ Jobs[i].status \in statuses

\* the job with this id is unassigned or targeted at the agent's printer
JobFor(id, printerId) ==
    \E i \in JobIdx :
        /\ Jobs[i].id = id
        /\ \/ Jobs[i].printerId = printerId
           \/ LooseNull(Jobs[i].printerId)

\* C37: with handlers run one at a time, every request of the agent answered,
\* finitely many enqueues and the loop of agent P running on, every queued
\* job that is unassigned or targeted at P eventually is done or failed.
C37_EligibleJobsFinish ==
    \A id \in 1..MaxJobs :
        (JobIn(id, {"queued"}) /\ JobFor(id, PRINTER_ID))
            ~> JobIn(id, {"done", "failed"})

\* C37 witness: an unassigned job that waited behind a job targeted at P is
\* done, and the job targeted at P is done or failed
C37_Witness ==
    /\ Len(Jobs) = 2
    /\ LooseNull(Jobs[1].printerId) /\ Jobs[1].status = "done"
    /\ Jobs[2].printerId = PRINTER_ID /\ Jobs[2].status \in {"done", "failed"}
    /\ Jobs[2].finishedAt <= Jobs[1].finishedAt

----------------------------------------------------------------------------
(* Heartbeats with and without a printerId, among the other handlers, run  *)
(* one at a time on a store that starts with one session and no agent      *)

InitBeat ==
    /\ env = CentralEnv
    /\ disk = [EmptyStore EXCEPT !.sessions = <<StoredSession>>]
    /\ now = 1
    /\ nextId = 2
    /\ reqs = <<>>
    /\ last = NoLast
    /\ agent = NoAgent

NextBeat ==
    \/ /\ Len(disk.printJobs) < MaxDispatchJobs
       /\ PostPrint(PrintRequest(<<1>>, <<>>, Undefined, <<>>), "-", "-", "-")
       /\ Idle
    \/ \E p \in PrinterIds \cup {Undefined, EmptyStr}, v \in {"1.0.0", Undefined} :
          Heartbeat(p, v, Undefined) /\ Idle
    \/ NextJob(PRINTER_ID) /\ Idle
    \/ \E j \in DOMAIN disk.printJobs :
          Complete(disk.printJobs[j].id, JsTrue, Undefined) /\ Idle
    \/ DeleteSession(1) /\ Idle
    \/ Tick /\ Idle

SpecBeat == InitBeat /\ [][NextBeat]_vars

\* a step of the heartbeat handler, run without interruption
HeartbeatStep == last'.op = "heartbeat" /\ (last' # last \/ disk' # disk)

----------------------------------------------------------------------------
(* The notes line for notes texts over the alphabet a, double quote and    *)
(* backslash: short texts, and texts that reach the 28 character budget    *)

NoteAlphabet == {"a", "\"", "\\"}

\* the texts of 1..n characters over the alphabet
RECURSIVE Words(_)
Words(n) ==
    IF n = 0 THEN {}
    ELSE NoteAlphabet \cup {w \o c : w \in Words(n - 1), c \in NoteAlphabet}

\* n times the letter a
RECURSIVE Filler(_)
Filler(n) == IF n = 0 THEN "" ELSE "a" \o Filler(n - 1)

NoteTexts ==
    Words(MaxTail)
    \cup {Filler(k) \o w : k \in {TsplNotesWidth - 2, TsplNotesWidth - 1}, w \in Words(MaxTail)}

NotesEnv == [CENTRAL_MODE |-> Undefined, PRINT_MODE |-> "tspl", DIRECT_PRINT |-> Undefined]

NotesRequests ==
    {PrintRequest(<<1>>, <<>>, Undefined, d) : d \in {<<>>, <<[host |-> "10.0.0.9"]>>}}

InitNotes ==
    /\ env = NotesEnv
    /\ \E n \in NoteTexts :
          disk = [EmptyStore EXCEPT !.sessions = <<LabelSession(1, 250, n)>>]
    /\ now = 1
    /\ nextId = 2
    /\ reqs = <<>>
    /\ last = NoLast
    /\ agent = NoAgent

NextNotes ==
    \E r \in NotesRequests :
        \E tc \in TcpOutcomes(r), lp \in LpOutcomes(r, "-") :
            PostPrint(r, tc, "-", lp) /\ Idle

SpecNotes == InitNotes /\ [][NextNotes]_vars

\* the text between the delimiting quotes of the notes line of a program
NotesText(text) ==
    LET line == Lines(text)[10]
        open == Len(Text(y3, 1, 1, ""))
    IN  SubSeq(line, open, Len(line) - 1)

\* the number of backslashes a text ends in
RECURSIVE TrailingBackslashes(_)
TrailingBackslashes(t) ==
    IF Len(t) = 0 \/ SubSeq(t, Len(t), Len(t)) # "\\" THEN 0
    ELSE 1 + TrailingBackslashes(SubSeq(t, 1, Len(t) - 1))

\* C39: for every notes text over an alphabet with the double quote and the
\* backslash, the text between the delimiting quotes of the notes line has
\* at most 28 characters, each double quote in it follows a backslash, and
\* it does not end in an unpaired backslash, which would escape the closing
\* delimiter.
C39_NotesTextEscaped ==
    (last.op = "print" /\ last.output # <<>>) =>
        LET t == NotesText(Rendering(last.output[1])) IN
        /\ Len(t) <= TsplNotesWidth
        /\ \A i \in 1..Len(t) :
              SubSeq(t, i, i) = "\"" => (i > 1 /\ SubSeq(t, i - 1, i - 1) = "\\")
        /\ TrailingBackslashes(t) % 2 = 0

====
